---------------------------- MODULE Spec2Model ----------------------------
(***************************************************************************)
(* Model of the HDL BusPro AC integration (custom_components/buspro_ac).   *)
(*                                                                         *)
(* Device reconciler: climate.py, class HdlAcClimate.  One entity is       *)
(* modelled; its fields are the record `ac`.  The methods of the class are *)
(* operators from an entity record to the entity record after the call,    *)
(* and every action of Spec applies one whole method.                      *)
(*                                                                         *)
(* Time is counted in half seconds: the 2.5 s command window of            *)
(* _handle_status_update is Window = 5 half seconds, and every clock       *)
(* reading is a whole number of half seconds.                              *)
(***************************************************************************)
EXTENDS Integers, Sequences, FiniteSets, TLC

VARIABLES
    ac,        \* the fields of one HdlAcClimate entity
    now,       \* the reading of time.time(), in half seconds
    op,        \* the last method called on the entity and its inputs
    listener,  \* the listener thread inside _handle_status_update
    caller,    \* the thread of a service call inside turn_on / turn_off
    wire,      \* hdl_ac_core.py: the bytes handed to a function of the codec
    out,       \* hdl_ac_core.py: what the function returned for them
    gateway,   \* the fields of the HdlGateway and its listener thread
    devices    \* the entities whose callbacks the gateway holds

vars == <<ac, now, op, listener, caller, wire, out, gateway, devices>>

\* the variables of the codec and of the gateway, which the methods of one
\* entity leave alone
nonEntityVars == <<wire, out, gateway, devices>>

---------------------------------------------------------------------------
(* Constants of the source *)

\* Python's None, for the integer-valued fields of a status record
None == -1

\* hdl_ac_core.py: HVAC mode bytes
HVAC_MODE_COOL == 0
HVAC_MODE_FAN == 2
HVAC_MODE_DRY == 4

\* hdl_ac_core.py: fan speed bytes
FAN_SPEED_AUTO == 0
FAN_SPEED_HIGH == 1
FAN_SPEED_MEDIUM == 2
FAN_SPEED_LOW == 3

\* climate.py:126, the default target temperature
DefaultTemperature == 24

\* climate.py:404, the command window: 2.5 s, in half seconds
Window == 5

\* homeassistant HVACMode / FanMode values used by climate.py
HVAC_OFF == "off"
HVAC_COOL == "cool"
HVAC_FAN_ONLY == "fan_only"
HVAC_DRY == "dry"

FAN_AUTO == "auto"
FAN_HIGH == "high"
FAN_MEDIUM == "medium"
FAN_LOW == "low"

---------------------------------------------------------------------------
(* Bounds of the model *)

\* the clock stops advancing at MaxNow half seconds
MaxNow == 10

\* the target temperatures commanded and reported
Temperatures == {DefaultTemperature, DefaultTemperature + 1}

\* the fan modes passed to set_fan_mode
FanModeInputs == {FAN_AUTO, FAN_HIGH}

\* the modes passed to set_hvac_mode
HvacModeInputs == {HVAC_OFF, HVAC_COOL, HVAC_FAN_ONLY, HVAC_DRY}

\* A status record as the callback reads it: the keys is_on, temperature,
\* hvac_mode and fan_speed of the dict of parse_status_packet (subnet and
\* device_id are those of the entity; current_temperature is not modelled).
\* parse_status_packet gives is_on as a bool; _apply_status_update also
\* handles is_on None ("None" below).
Status(is_on, temperature, hvac_mode, fan_speed) ==
    [is_on |-> is_on, temperature |-> temperature,
     hvac_mode |-> hvac_mode, fan_speed |-> fan_speed]

\* The status records delivered to the callback: a device that is on or off
\* with every field decoded, and the records with one or more fields absent.
StatusRecords ==
    LET t == DefaultTemperature + 1
    IN  { Status("True", DefaultTemperature, HVAC_MODE_COOL, FAN_SPEED_AUTO),
          Status("True", t, HVAC_MODE_FAN, FAN_SPEED_HIGH),
          Status("False", t, HVAC_MODE_FAN, FAN_SPEED_HIGH),
          Status("False", None, None, None),
          Status("True", t, None, FAN_SPEED_HIGH),
          Status("True", None, HVAC_MODE_FAN, FAN_SPEED_HIGH),
          Status("True", t, HVAC_MODE_FAN, None),
          Status("True", t, HVAC_MODE_DRY, FAN_SPEED_HIGH),
          Status("None", t, HVAC_MODE_FAN, FAN_SPEED_HIGH),
          Status("None", t, None, None) }

---------------------------------------------------------------------------
(* climate.py: the maps of turn_on, set_fan_mode and _apply_status_update *)

\* hvac_mode_map.get(mode, HVAC_MODE_COOL)
hvac_mode_map(mode) ==
    CASE mode = HVAC_COOL -> HVAC_MODE_COOL
      [] mode = HVAC_FAN_ONLY -> HVAC_MODE_FAN
      [] mode = HVAC_DRY -> HVAC_MODE_DRY
      [] OTHER -> HVAC_MODE_COOL

\* fan_mode_map.get(fan_mode, FAN_SPEED_AUTO)
fan_mode_map(fan_mode) ==
    CASE fan_mode = FAN_AUTO -> FAN_SPEED_AUTO
      [] fan_mode = FAN_HIGH -> FAN_SPEED_HIGH
      [] fan_mode = FAN_MEDIUM -> FAN_SPEED_MEDIUM
      [] fan_mode = FAN_LOW -> FAN_SPEED_LOW
      [] OTHER -> FAN_SPEED_AUTO

\* fan_speed_map_reverse.get(fan_speed, FanMode.AUTO)
fan_speed_map_reverse(fan_speed) ==
    CASE fan_speed = FAN_SPEED_AUTO -> FAN_AUTO
      [] fan_speed = FAN_SPEED_HIGH -> FAN_HIGH
      [] fan_speed = FAN_SPEED_MEDIUM -> FAN_MEDIUM
      [] fan_speed = FAN_SPEED_LOW -> FAN_LOW
      [] OTHER -> FAN_AUTO

---------------------------------------------------------------------------
(* climate.py: HdlAcClimate *)

\* __init__: the fields of a new entity.  notify counts the calls of
\* schedule_update_ha_state made by the last method called.
NewEntity ==
    [hvac_mode |-> HVAC_OFF,
     target_temperature |-> DefaultTemperature,
     fan_mode |-> FAN_AUTO,
     last_command_sent |-> 0,
     last_status |-> << >>,
     pending_command |-> << >>,
     notify |-> 0]

\* schedule_update_ha_state()
schedule_update_ha_state(e) == [e EXCEPT !.notify = @ + 1]

\* turn_on up to the hand-over to the gateway (lines 297-334): the frame is
\* built from the fields and the command is recorded; t is time.time()
turn_on_issue(e, t) ==
    LET hdl_mode == hvac_mode_map(e.hvac_mode)
        fan_speed_byte == fan_mode_map(e.fan_mode)
    IN  [e EXCEPT !.last_command_sent = t,
                  !.pending_command =
                      << [is_on |-> "True",
                          temperature |-> e.target_temperature,
                          hvac_mode |-> hdl_mode,
                          fan_speed |-> fan_speed_byte] >>]

\* turn_on after gateway.send_packet returned success (lines 339-348)
turn_on_done(e, success) ==
    IF success
    THEN schedule_update_ha_state(
             [e EXCEPT !.hvac_mode = IF @ = HVAC_OFF THEN HVAC_COOL ELSE @])
    ELSE e

\* turn_on
turn_on(e, t, success) == turn_on_done(turn_on_issue(e, t), success)

\* turn_off_issue recording nothing before the hand-over
turn_off_issue_unrecorded(e, t) == e

\* turn_off up to the hand-over to the gateway (lines 357-371)
turn_off_issue(e, t) ==
    [e EXCEPT !.last_command_sent = t,
              !.pending_command =
                  << [is_on |-> "False",
                      temperature |-> e.target_temperature,
                      hvac_mode |-> None] >>]

\* turn_off_done with the state updated whatever send_packet returned
turn_off_done_unconditional(e, success) ==
    schedule_update_ha_state([e EXCEPT !.hvac_mode = HVAC_OFF])

\* turn_off after gateway.send_packet returned success (lines 376-381)
turn_off_done(e, success) ==
    IF success
    THEN schedule_update_ha_state([e EXCEPT !.hvac_mode = HVAC_OFF])
    ELSE e

\* turn_off
turn_off(e, t, success) == turn_off_done(turn_off_issue(e, t), success)

\* set_hvac_mode taking every mode other than OFF, DRY included
set_hvac_mode_any_mode(e, hvac_mode, t, success) ==
    IF hvac_mode = HVAC_OFF
    THEN turn_off(e, t, success)
    ELSE turn_on([e EXCEPT !.hvac_mode = hvac_mode], t, success)

\* set_hvac_mode
set_hvac_mode(e, hvac_mode, t, success) ==
    IF hvac_mode = HVAC_OFF
    THEN turn_off(e, t, success)
    ELSE IF hvac_mode \in {HVAC_COOL, HVAC_FAN_ONLY}
         THEN turn_on([e EXCEPT !.hvac_mode = hvac_mode], t, success)
         ELSE e

\* set_temperature keeping the new temperature only while the entity is on
set_temperature_only_when_on(e, temperature, t, success) ==
    IF temperature = None
    THEN e
    ELSE schedule_update_ha_state(
             IF e.hvac_mode # HVAC_OFF
             THEN turn_on([e EXCEPT !.target_temperature = temperature],
                          t, success)
             ELSE e)

\* set_temperature; temperature = None is a call without ATTR_TEMPERATURE
set_temperature(e, temperature, t, success) ==
    IF temperature = None
    THEN e
    ELSE LET set == [e EXCEPT !.target_temperature = temperature]
         IN  schedule_update_ha_state(
                 IF set.hvac_mode # HVAC_OFF
                 THEN turn_on(set, t, success)
                 ELSE set)

\* set_fan_mode
set_fan_mode(e, fan_mode, t, success) ==
    LET fan_speed_byte == fan_mode_map(fan_mode)
        hdl_mode == hvac_mode_map(e.hvac_mode)
        sent == [e EXCEPT !.last_command_sent = t,
                          !.pending_command =
                              << [is_on |-> "True",
                                  temperature |-> e.target_temperature,
                                  hvac_mode |-> hdl_mode,
                                  fan_speed |-> fan_speed_byte] >>]
    IN  IF success
        THEN schedule_update_ha_state([sent EXCEPT !.fan_mode = fan_mode])
        ELSE sent

\* command_window_active with no window at all
command_window_active_never(current_time, last_command_sent) == FALSE

\* command_window_active with a window of one second
command_window_active_1s(current_time, last_command_sent) ==
    (current_time - last_command_sent) < 2

\* _handle_status_update: command_window_active
command_window_active(current_time, last_command_sent) ==
    (current_time - last_command_sent) < Window

\* _apply_status_update: the mode a status byte maps to ("" is new_mode None)
new_mode(hvac_mode_byte) ==
    CASE hvac_mode_byte = HVAC_MODE_COOL -> HVAC_COOL
      [] hvac_mode_byte = HVAC_MODE_FAN -> HVAC_FAN_ONLY
      [] hvac_mode_byte = HVAC_MODE_DRY -> HVAC_COOL
      [] OTHER -> ""

\* _apply_status_update: the HVAC mode after the record's mode and power
apply_hvac_mode(hvac_mode, status) ==
    IF status.hvac_mode # None
    THEN IF new_mode(status.hvac_mode) # ""
         THEN IF status.is_on = "True"
              THEN new_mode(status.hvac_mode)
              ELSE IF status.is_on = "False"
                   THEN HVAC_OFF
                   ELSE new_mode(status.hvac_mode)
         ELSE hvac_mode
    ELSE IF status.is_on = "False"
         THEN HVAC_OFF
         ELSE hvac_mode

\* apply_temperature taking the temperature of a device that is off as well
apply_temperature_when_off(target_temperature, status) ==
    IF status.temperature # None
    THEN status.temperature
    ELSE target_temperature

\* apply_temperature without the test for an absent temperature
apply_temperature_unchecked(target_temperature, status) ==
    IF status.is_on # "False"
    THEN status.temperature
    ELSE target_temperature

\* _apply_status_update: the target temperature after the record
apply_temperature(target_temperature, status) ==
    IF status.temperature # None /\ status.is_on # "False"
    THEN status.temperature
    ELSE target_temperature

\* _apply_status_update: the fan mode after the record
apply_fan_mode(fan_mode, status) ==
    IF status.fan_speed # None
    THEN fan_speed_map_reverse(status.fan_speed)
    ELSE fan_mode

\* apply_status_update notifying whether or not a field changed
apply_status_update_always_notify(e, status) ==
    schedule_update_ha_state(
        [e EXCEPT !.hvac_mode = apply_hvac_mode(@, status),
                  !.target_temperature = apply_temperature(@, status),
                  !.fan_mode = apply_fan_mode(@, status)])

\* _apply_status_update
apply_status_update(e, status) ==
    LET applied == [e EXCEPT
                      !.hvac_mode = apply_hvac_mode(@, status),
                      !.target_temperature = apply_temperature(@, status),
                      !.fan_mode = apply_fan_mode(@, status)]
        updated == \/ applied.hvac_mode # e.hvac_mode
                   \/ applied.target_temperature # e.target_temperature
                   \/ applied.fan_mode # e.fan_mode
    IN  IF updated THEN schedule_update_ha_state(applied) ELSE applied

\* _handle_status_update after the command window check (lines 413-437)
accept_status(e, status) ==
    IF e.last_status = << status >>
    THEN e
    ELSE IF status.hvac_mode = HVAC_MODE_DRY
         THEN [e EXCEPT !.last_status = << status >>]
         ELSE apply_status_update(
                  [e EXCEPT !.last_status = << status >>,
                            !.pending_command = << >>],
                  status)

\* handle_status_update remembering the record it drops inside the window
handle_status_update_remembering(e, status, t) ==
    IF command_window_active(t, e.last_command_sent)
    THEN [e EXCEPT !.last_status = << status >>]
    ELSE accept_status(e, status)

\* handle_status_update without the command window
handle_status_update_no_window(e, status, t) == accept_status(e, status)

\* _handle_status_update, with t the reading of time.time()
handle_status_update(e, status, t) ==
    IF command_window_active(t, e.last_command_sent)
    THEN e
    ELSE accept_status(e, status)

---------------------------------------------------------------------------
(* The entity under its callers, one whole method per step: Home           *)
(* Assistant's service calls and the callback of the gateway's listener.   *)

NoStatus == << >>

\* op: the method called last, its arguments, and in `sent` the result of
\* the last gateway.send_packet made for the entity ("none" before any)
Called(kind, sent, hvac_mode, temperature, fan_mode, status) ==
    [kind |-> kind, sent |-> sent, hvac_mode |-> hvac_mode,
     temperature |-> temperature, fan_mode |-> fan_mode, status |-> status]

SendResult(success) == IF success THEN "ok" ELSE "failed"

\* a method starts with no notification made
Fresh(e) == [e EXCEPT !.notify = 0]

Idle == [pc |-> "idle", status |-> NoStatus, kind |-> ""]

\* one new entity, outside the window of any command, no method running
EntityIdle ==
    /\ ac = NewEntity
    /\ now = Window
    /\ op = Called("init", "none", "", None, "", NoStatus)
    /\ listener = Idle
    /\ caller = Idle

\* no bytes are handed to the codec
CodecIdle == wire = << >> /\ out = << >>

\* no gateway is set up
GatewayIdle == gateway = << >> /\ devices = << >>

Init == EntityIdle /\ CodecIdle /\ GatewayIdle

TurnOn ==
    \E success \in BOOLEAN :
        /\ ac' = turn_on(Fresh(ac), now, success)
        /\ op' = Called("turn_on", SendResult(success), "", None, "", NoStatus)
        /\ UNCHANGED <<now, listener, caller>>
        /\ UNCHANGED nonEntityVars

TurnOff ==
    \E success \in BOOLEAN :
        /\ ac' = turn_off(Fresh(ac), now, success)
        /\ op' = Called("turn_off", SendResult(success), "", None, "", NoStatus)
        /\ UNCHANGED <<now, listener, caller>>
        /\ UNCHANGED nonEntityVars

\* set_hvac_mode sends a frame for OFF, COOL and FAN_ONLY
SetHvacMode ==
    \E success \in BOOLEAN, hvac_mode \in HvacModeInputs :
        /\ ac' = set_hvac_mode(Fresh(ac), hvac_mode, now, success)
        /\ op' = Called("set_hvac_mode",
                        IF hvac_mode \in {HVAC_OFF, HVAC_COOL, HVAC_FAN_ONLY}
                        THEN SendResult(success) ELSE op.sent,
                        hvac_mode, None, "", NoStatus)
        /\ UNCHANGED <<now, listener, caller>>
        /\ UNCHANGED nonEntityVars

\* set_temperature sends a frame when the entity is not OFF
SetTemperature ==
    \E success \in BOOLEAN, temperature \in {None} \cup Temperatures :
        /\ ac' = set_temperature(Fresh(ac), temperature, now, success)
        /\ op' = Called("set_temperature",
                        IF temperature # None /\ ac.hvac_mode # HVAC_OFF
                        THEN SendResult(success) ELSE op.sent,
                        "", temperature, "", NoStatus)
        /\ UNCHANGED <<now, listener, caller>>
        /\ UNCHANGED nonEntityVars

SetFanMode ==
    \E success \in BOOLEAN, fan_mode \in FanModeInputs :
        /\ ac' = set_fan_mode(Fresh(ac), fan_mode, now, success)
        /\ op' = Called("set_fan_mode", SendResult(success), "", None, fan_mode,
                        NoStatus)
        /\ UNCHANGED <<now, listener, caller>>
        /\ UNCHANGED nonEntityVars

\* HdlGateway._listener_loop calls the registered callback with a record
StatusReceived ==
    \E status \in StatusRecords :
        /\ ac' = handle_status_update(Fresh(ac), status, now)
        /\ op' = Called("status", op.sent, "", None, "", << status >>)
        /\ UNCHANGED <<now, listener, caller>>
        /\ UNCHANGED nonEntityVars

\* half a second passes
Tick ==
    /\ now < MaxNow
    /\ now' = now + 1
    /\ UNCHANGED <<ac, op, listener, caller>>
    /\ UNCHANGED nonEntityVars

Next ==
    \/ TurnOn
    \/ TurnOff
    \/ SetHvacMode
    \/ SetTemperature
    \/ SetFanMode
    \/ StatusReceived
    \/ Tick

Spec == Init /\ [][Next]_vars

---------------------------------------------------------------------------
(* The entity under its threads.  _handle_status_update runs on the        *)
(* gateway's listener thread (HdlGateway._listener_loop, under the         *)
(* gateway's _callbacks_lock); turn_on and turn_off run on the thread of   *)
(* the service call and take no lock.  A method is split where the other   *)
(* thread can run in between: the listener after the command window check, *)
(* the caller while gateway.send_packet is sending.                        *)

\* _handle_status_update, lines 400-411: the window check
ListenerCheck ==
    \E status \in StatusRecords :
        /\ listener.pc = "idle"
        /\ ~command_window_active(now, ac.last_command_sent)
        /\ listener' = [pc |-> "accepted", status |-> << status >>, kind |-> ""]
        /\ UNCHANGED <<ac, now, op, caller>>
        /\ UNCHANGED nonEntityVars

\* _handle_status_update, lines 413-437, and _apply_status_update
ListenerApply ==
    /\ listener.pc = "accepted"
    /\ ac' = accept_status(Fresh(ac), listener.status[1])
    /\ listener' = Idle
    /\ UNCHANGED <<now, op, caller>>
    /\ UNCHANGED nonEntityVars

\* turn_on / turn_off up to gateway.send_packet
CallerIssue ==
    \E kind \in {"turn_on", "turn_off"} :
        /\ caller.pc = "idle"
        /\ ac' = IF kind = "turn_on"
                 THEN turn_on_issue(ac, now)
                 ELSE turn_off_issue(ac, now)
        /\ caller' = [pc |-> "sending", status |-> NoStatus, kind |-> kind]
        /\ UNCHANGED <<now, op, listener>>
        /\ UNCHANGED nonEntityVars

\* turn_on / turn_off after gateway.send_packet returned
CallerFinish ==
    \E success \in BOOLEAN :
        /\ caller.pc = "sending"
        /\ ac' = IF caller.kind = "turn_on"
                 THEN turn_on_done(Fresh(ac), success)
                 ELSE turn_off_done(Fresh(ac), success)
        /\ caller' = Idle
        /\ UNCHANGED <<now, op, listener>>
        /\ UNCHANGED nonEntityVars

NextThreads ==
    \/ ListenerCheck
    \/ ListenerApply
    \/ CallerIssue
    \/ CallerFinish
    \/ Tick

SpecThreads == Init /\ [][NextThreads]_vars

---------------------------------------------------------------------------
(* The entity and a device that settles: commands and status records come  *)
(* in any order until the device has settled on one state; from then on no *)
(* command is issued and the listener delivers the record of that state,   *)
(* which the device broadcasts again and again; listener holds the record. *)

\* the device settles, early enough for the window of the last command to
\* pass before the clock stops
Settle ==
    \E status \in StatusRecords :
        /\ listener = Idle
        /\ listener' = [pc |-> "settled", status |-> << status >>, kind |-> ""]
        /\ UNCHANGED <<ac, now, op, caller>>
        /\ UNCHANGED nonEntityVars

\* HdlGateway._listener_loop calls the callback with the record of the
\* settled device
Broadcast ==
    /\ listener.pc = "settled"
    /\ ac' = handle_status_update(Fresh(ac), listener.status[1], now)
    /\ op' = Called("status", op.sent, "", None, "", listener.status)
    /\ UNCHANGED <<now, listener, caller>>
    /\ UNCHANGED nonEntityVars

NextSettle ==
    \/ listener = Idle /\ (TurnOn \/ TurnOff \/ SetHvacMode \/ SetTemperature
                              \/ SetFanMode \/ StatusReceived)
    \/ Settle
    \/ Broadcast
    \/ (listener.pc = "settled" \/ now < MaxNow - Window) /\ Tick

\* time passes, and the device goes on broadcasting and the listener loop
\* receiving: a delivery that can be made is made
SpecSettle ==
    Init /\ [][NextSettle]_vars /\ WF_vars(Tick) /\ WF_vars(Broadcast)

---------------------------------------------------------------------------
(* hdl_ac_core.py: CRC and frame validation.  A bytes object is a sequence *)
(* of numbers 0..255; Python's index i is the sequence's index i + 1.      *)

\* b[i], for an index inside the bytes
At(b, i) == b[i + 1]

\* b[lo:hi], for 0 <= lo and hi <= len(b)
Slice(b, lo, hi) == SubSeq(b, lo + 1, hi)

\* a ^ b on non-negative integers
RECURSIVE BitXor(_, _)
BitXor(a, b) ==
    IF a = 0 THEN b
    ELSE IF b = 0 THEN a
    ELSE (((a % 2) + (b % 2)) % 2) + 2 * BitXor(a \div 2, b \div 2)

\* generate_crc_table: the inner loop, n shifts of a 16 bit register by the
\* polynomial 0x1021
RECURSIVE crc_shift(_, _)
crc_shift(crc, n) ==
    IF n = 0 THEN crc
    ELSE crc_shift((IF crc >= 32768
                    THEN BitXor(crc * 2, 4129)
                    ELSE crc * 2) % 65536,
                   n - 1)

\* CRC_TABLE = generate_crc_table()
CRC_TABLE == [i \in 0 .. 255 |-> crc_shift(i * 256, 8)]

\* compute_hdl_crc: the loop over the first data_len bytes, from register crc
RECURSIVE crc_loop(_, _, _, _)
crc_loop(data, data_len, i, crc) ==
    IF i >= data_len THEN crc
    ELSE LET idx == BitXor(crc \div 256, At(data, i)) % 256
         IN  crc_loop(data, data_len, i + 1,
                      BitXor((crc * 256) % 65536, CRC_TABLE[idx]) % 65536)

\* compute_hdl_crc covering the length byte only
compute_hdl_crc_length_only(data_with_length) ==
    LET crc == crc_loop(data_with_length, 1, 0, 0)
    IN  << (crc \div 256) % 256, crc % 256, crc >>

\* compute_hdl_crc: (crc_hi, crc_lo, crc) of everything but the last 2 bytes
compute_hdl_crc(data_with_length) ==
    LET data_len == Len(data_with_length) - 2
        crc == crc_loop(data_with_length, data_len, 0, 0)
    IN  << (crc \div 256) % 256, crc % 256, crc >>

\* append_hdl_crc: the bytes with the CRC written to the last 2 positions
append_hdl_crc(length_and_data) ==
    LET crc == compute_hdl_crc(length_and_data)
        n == Len(length_and_data)
    IN  [length_and_data EXCEPT ![n - 1] = crc[1], ![n] = crc[2]]

\* validate_frame without the test of the length byte
validate_frame_any_length(frame) ==
    IF Len(frame) < 4
    THEN "Frame too short"
    ELSE IF At(frame, 0) # 170 \/ At(frame, 1) # 170
    THEN "Frame does not start with 0xAA 0xAA"
    ELSE LET length_and_data == Slice(frame, 2, Len(frame))
             n == Len(length_and_data)
             computed == compute_hdl_crc(length_and_data)
         IN  IF n < 3
             THEN "Data too short for CRC"
             ELSE IF length_and_data[n - 1] # computed[1]
                     \/ length_and_data[n] # computed[2]
             THEN "CRC MISMATCH"
             ELSE "valid"

\* validate_frame: "valid" when it returns, else the ValueError it raises
validate_frame(frame) ==
    IF Len(frame) < 4
    THEN "Frame too short"
    ELSE IF At(frame, 0) # 170 \/ At(frame, 1) # 170
    THEN "Frame does not start with 0xAA 0xAA"
    ELSE LET length == At(frame, 2)
             expected_data_len == length - 1
             actual_data_len == Len(frame) - 3
             length_and_data == Slice(frame, 2, Len(frame))
             n == Len(length_and_data)
             computed == compute_hdl_crc(length_and_data)
         IN  IF actual_data_len # expected_data_len
             THEN "Frame length mismatch"
             ELSE IF n < 3
             THEN "Data too short for CRC"
             ELSE IF length_and_data[n - 1] # computed[1]
                     \/ length_and_data[n] # computed[2]
             THEN "CRC MISMATCH"
             ELSE "valid"

---------------------------------------------------------------------------
(* validate_frame and the CRC under test: a byte string is given, is taken *)
(* as a data area and framed, or has the CRC written over its last two     *)
(* bytes; a framed string may have one bit flipped; validate_frame is      *)
(* then called on it.                                                      *)

\* the longest byte string given, and the longest taken as a data area
MaxFrame == 6
MaxData == 3

\* the bytes of the strings given: the marker byte, the length bytes of the
\* frames of 5 and 6 bytes, and zero
FrameBytes == {0, 3, 4, 170}

\* the byte strings of n bytes from the set bytes
BytesOfLen(bytes, n) == [1 .. n -> bytes]

\* the byte strings given
FrameInputs == UNION { BytesOfLen(FrameBytes, n) : n \in 0 .. MaxFrame }

\* marker + length byte + data area + CRC, the CRC by append_hdl_crc
\* (the layout build_packet writes)
Frame(data_area) ==
    << 170, 170 >>
        \o append_hdl_crc(<< 1 + Len(data_area) + 2 >> \o data_area \o << 0, 0 >>)

\* the byte value with bit number bit (0..7) flipped
RECURSIVE Pow2(_)
Pow2(n) == IF n = 0 THEN 1 ELSE 2 * Pow2(n - 1)

FlipBitOf(byte, bit) == BitXor(byte, Pow2(bit))

\* out while the frame functions are under test: how the bytes in wire were
\* made, and the result of validate_frame once it was called
FrameOut(made, result) == [made |-> made, result |-> result]

InitFrame ==
    /\ EntityIdle
    /\ GatewayIdle
    /\ wire \in FrameInputs
    /\ out = FrameOut("given", << >>)

\* the string is framed as a data area
MakeFrame ==
    /\ out = FrameOut("given", << >>)
    /\ Len(wire) <= MaxData
    /\ wire' = Frame(wire)
    /\ out' = FrameOut("framed", << >>)
    /\ UNCHANGED <<ac, now, op, listener, caller, gateway, devices>>

\* append_hdl_crc is applied to the string from its third byte on
AppendCrc ==
    /\ out = FrameOut("given", << >>)
    /\ Len(wire) >= 4
    /\ wire' = Slice(wire, 0, 2) \o append_hdl_crc(Slice(wire, 2, Len(wire)))
    /\ out' = FrameOut("sealed", << >>)
    /\ UNCHANGED <<ac, now, op, listener, caller, gateway, devices>>

\* one bit of the length byte or of the data area of a frame is flipped
FlipBit ==
    \E i \in 2 .. Len(wire) - 3, bit \in 0 .. 7 :
        /\ out = FrameOut("framed", << >>)
        /\ wire' = [wire EXCEPT ![i + 1] = FlipBitOf(@, bit)]
        /\ out' = FrameOut("flipped", << >>)
        /\ UNCHANGED <<ac, now, op, listener, caller, gateway, devices>>

\* validate_frame is called
Validate ==
    /\ out.result = << >>
    /\ out' = [out EXCEPT !.result = << validate_frame(wire) >>]
    /\ UNCHANGED <<ac, now, op, listener, caller, gateway, devices, wire>>

NextFrame ==
    \/ MakeFrame
    \/ AppendCrc
    \/ FlipBit
    \/ Validate

SpecFrame == InitFrame /\ [][NextFrame]_vars

---------------------------------------------------------------------------
(* hdl_ac_core.py: parse_status_packet.  It returns None, << >> here, or   *)
(* a dict, << record >> here; the bool is_on is "True" or "False" as in    *)
(* the status records of the entity.                                       *)

\* Python's bool, as the entity's status records carry it
Bool(b) == IF b THEN "True" ELSE "False"

\* the last marker instead of the first
RECURSIVE find_last_marker(_, _)
find_last_marker(packet, i) ==
    IF i >= Len(packet) - 1 THEN -1
    ELSE LET later == find_last_marker(packet, i + 1)
         IN  IF later >= 0 THEN later
             ELSE IF At(packet, i) = 170 /\ At(packet, i + 1) = 170 THEN i
             ELSE -1

\* the first i at or after position i with packet[i], packet[i+1] = AA AA,
\* or -1: the loop that sets aa_pos
RECURSIVE find_marker(_, _)
find_marker(packet, i) ==
    IF i >= Len(packet) - 1 THEN -1
    ELSE IF At(packet, i) = 170 /\ At(packet, i + 1) = 170 THEN i
    ELSE find_marker(packet, i + 1)

\* every byte taken as the type of a status frame
StatusTypesAny == 0 .. 255

\* the length bytes of the status frames: [0x18, 0x19, 0x1A]
StatusTypes == {24, 25, 26}

\* decode_temperature without the range check
decode_temperature_unchecked(length, data_area) ==
    IF length = 25 THEN At(data_area, 10) ELSE At(data_area, 11)

\* temperature: the setpoint byte, or None when it is not in 16..35
decode_temperature(length, data_area) ==
    LET temp_byte == IF length = 25
                     THEN (IF Len(data_area) > 10
                           THEN At(data_area, 10) ELSE None)
                     ELSE (IF Len(data_area) > 11
                           THEN At(data_area, 11) ELSE None)
    IN  IF temp_byte # None /\ 16 <= temp_byte /\ temp_byte <= 35
        THEN temp_byte
        ELSE None

\* current_temperature read at position 11 instead of position 10
decode_current_temperature_position_11(data_area) ==
    LET current_temp_byte == IF Len(data_area) > 11
                             THEN At(data_area, 11) ELSE None
    IN  IF current_temp_byte # None
           /\ 10 <= current_temp_byte /\ current_temp_byte <= 50
        THEN current_temp_byte
        ELSE None

\* current_temperature: the sensor byte, or None when it is not in 10..50
decode_current_temperature(data_area) ==
    LET current_temp_byte == IF Len(data_area) > 10
                             THEN At(data_area, 10) ELSE None
    IN  IF current_temp_byte # None
           /\ 10 <= current_temp_byte /\ current_temp_byte <= 50
        THEN current_temp_byte
        ELSE None

\* decode_is_on reading position 15 for every type of frame
decode_is_on_position_15(length, data_area) ==
    Bool(At(data_area, 15) # 32)

\* is_on
decode_is_on(length, data_area) ==
    IF length = 25
    THEN LET on_off_byte == IF Len(data_area) > 9
                            THEN At(data_area, 9) ELSE 0
         IN  Bool(on_off_byte = 1)
    ELSE Bool(At(data_area, 15) # 32)

\* hvac_mode
decode_hvac_mode(data_area) ==
    LET mode_byte == At(data_area, 17)
    IN  IF mode_byte = 0 THEN HVAC_MODE_COOL
        ELSE IF mode_byte = 2 THEN HVAC_MODE_FAN
        ELSE IF mode_byte = 4 THEN HVAC_MODE_DRY
        ELSE None

\* fan_speed
decode_fan_speed(length, data_area) ==
    IF length \in {25, 26} /\ Len(data_area) > 16
    THEN IF At(data_area, 16) \in {0, 1, 2, 3}
         THEN At(data_area, 16)
         ELSE None
    ELSE None

\* parse_status_packet
parse_status_packet(packet) ==
    LET aa_pos == find_marker(packet, 0)
        frame == Slice(packet, aa_pos, Len(packet))
        length == At(frame, 2)
        expected_data_len == length - 1
        actual_data_len == Len(frame) - 3
        data_area == Slice(frame, 3, Len(frame) - 2)
    IN  IF aa_pos < 0 THEN << >>
        ELSE IF Len(frame) < 10 THEN << >>
        ELSE IF At(frame, 0) # 170 \/ At(frame, 1) # 170 THEN << >>
        ELSE IF length \notin StatusTypes THEN << >>
        ELSE IF actual_data_len # expected_data_len THEN << >>
        ELSE IF Len(data_area) < 18 THEN << >>
        ELSE << [subnet |-> At(data_area, 0),
                 device_id |-> At(data_area, 1),
                 is_on |-> decode_is_on(length, data_area),
                 temperature |-> decode_temperature(length, data_area),
                 current_temperature |->
                     decode_current_temperature(data_area),
                 hvac_mode |-> decode_hvac_mode(data_area),
                 fan_speed |-> decode_fan_speed(length, data_area)] >>

---------------------------------------------------------------------------
(* parse_status_packet under test: a packet is received, its last CRC byte *)
(* may be damaged, and parse_status_packet is called on it.                *)

\* the longest string of arbitrary bytes received
MaxGarbage == 4

\* the types of the status frames received
ReceivedTypes == {24, 25, 26}

\* the bytes at the positions parse_status_packet reads, for the status
\* frames received, with the values at and around every limit tested: the
\* sensor byte at position 10 (the setpoint of 0x19) with the setpoint byte
\* at position 11; the power bytes at positions 9 (0x19) and 15; the fan
\* speed byte at position 16 with the mode byte at position 17
TemperatureBytes ==
    [b10 : {9, 10, 15, 16, 35, 36, 50, 51}, b11 : {15, 16, 35, 36}]

PowerBytes == [b9 : {0, 1, 32}, b15 : {0, 1, 32, 33}]

FanModeBytes == [b16 : {0, 1, 2, 3, 4}, b17 : {0, 1, 2, 3, 4}]

\* one status: device 1.14 on, 26 C in the room, setpoint 24, fan HIGH, COOL
SomeFields ==
    [subnet |-> 1, device_id |-> 14, b9 |-> 1, b10 |-> 26, b11 |-> 24,
     b15 |-> 1, b16 |-> 1, b17 |-> 0]

\* one status with no byte recognized: 36 at both temperature positions, the
\* fan byte 4 and the mode byte 3
UnreadableFields ==
    [SomeFields EXCEPT !.b10 = 36, !.b11 = 36, !.b16 = 4, !.b17 = 3]

\* the data area of a frame with length byte length: length - 3 bytes, zero
\* but for the positions read
StatusData(length, f) ==
    [i \in 1 .. (length - 3) |->
        CASE i = 1 -> f.subnet
          [] i = 2 -> f.device_id
          [] i = 10 -> f.b9
          [] i = 11 -> f.b10
          [] i = 12 -> f.b11
          [] i = 16 -> f.b15
          [] i = 17 -> f.b16
          [] i = 18 -> f.b17
          [] OTHER -> 0]

\* the bytes before the marker in a packet: none, two bytes, and two bytes
\* of which the last is 0xAA
Prefixes == { << >>, << 1, 2 >>, << 1, 170 >> }

\* the packets received: status frames of the three types from device 1.14
\* with every choice of the temperature bytes, of the power bytes and of the
\* fan and mode bytes; one status with no byte recognized; one status from
\* other addresses; one status behind
\* every prefix, in frames of the types 0x17..0x1B; the same with the length
\* byte one more than the frame has; and every string of up to MaxGarbage
\* bytes from marker, type and zero
Packets ==
    { Frame(StatusData(length,
                       [SomeFields EXCEPT !.b10 = t.b10, !.b11 = t.b11])) :
          length \in ReceivedTypes, t \in TemperatureBytes }
    \cup { Frame(StatusData(length,
                            [SomeFields EXCEPT !.b9 = p.b9, !.b15 = p.b15])) :
              length \in ReceivedTypes, p \in PowerBytes }
    \cup { Frame(StatusData(length,
                            [SomeFields EXCEPT !.b16 = m.b16, !.b17 = m.b17])) :
              length \in ReceivedTypes, m \in FanModeBytes }
    \cup { Frame(StatusData(length, UnreadableFields)) :
              length \in ReceivedTypes }
    \cup { Frame(StatusData(length,
                            [SomeFields EXCEPT !.subnet = a[1],
                                               !.device_id = a[2]])) :
              length \in ReceivedTypes, a \in {<<1, 15>>, <<2, 14>>, <<255, 0>>} }
    \cup { prefix \o Frame(StatusData(length, SomeFields)) :
              prefix \in Prefixes, length \in 23 .. 27 }
    \cup { [Frame(StatusData(length, SomeFields)) EXCEPT ![3] = @ + 1] :
              length \in 23 .. 26 }
    \cup UNION { BytesOfLen({0, 24, 170}, n) : n \in 0 .. MaxGarbage }

InitDecoder ==
    /\ EntityIdle
    /\ GatewayIdle
    /\ wire \in Packets
    /\ out = << >>

\* the last byte of the packet, the low CRC byte of a frame, is damaged
DamageCrc ==
    /\ out = << >>
    /\ Len(wire) > 0
    /\ wire' = [wire EXCEPT ![Len(wire)] = FlipBitOf(@, 0)]
    /\ UNCHANGED <<ac, now, op, listener, caller, gateway, devices, out>>

\* parse_status_packet is called
Parse ==
    /\ out = << >>
    /\ out' = << parse_status_packet(wire) >>
    /\ UNCHANGED <<ac, now, op, listener, caller, gateway, devices, wire>>

NextDecoder ==
    \/ DamageCrc
    \/ Parse

SpecDecoder == InitDecoder /\ [][NextDecoder]_vars

---------------------------------------------------------------------------
(* __init__.py: HdlGateway, its callbacks and its listener thread, with    *)
(* the entities that registered with it.  _callbacks is a function from    *)
(* the keys (subnet, device_id) present to the list of callbacks, a        *)
(* callback being the number of its entity in devices.  The listener       *)
(* thread is at "loop" (the test of the while loop), at "recvfrom"         *)
(* (waiting for a packet) or at "callbacks" (a record decoded, the         *)
(* callbacks not yet called); "none" when no thread runs.                  *)

\* the number of entities set up
MaxEntities == 2

\* the addresses of the devices configured
Addresses == { << 1, 14 >>, << 1, 15 >> }

\* the packets received by the listener: for the devices configured and for
\* 1.16, which is not, a status frame reporting on and one reporting off;
\* and a packet that is no frame
GatewayPackets ==
    { Frame(StatusData(24, [SomeFields EXCEPT !.device_id = d, !.b15 = p])) :
          d \in {14, 15, 16}, p \in {1, 32} }
    \cup { << 0, 24, 170 >> }

\* HdlGateway.__init__
NewGateway ==
    [listener_running |-> FALSE,
     callbacks |-> << >>,
     sock |-> "none",
     pc |-> "none",
     status |-> << >>,
     stopped_at |-> ""]

\* register_callback
register_callback(g, key, callback) ==
    [g EXCEPT !.callbacks =
        IF key \in DOMAIN @
        THEN [@ EXCEPT ![key] = Append(@, callback)]
        ELSE @ @@ (key :> << callback >>)]

\* list.remove(callback): the list without the first callback equal to it
RECURSIVE remove(_, _)
remove(list, callback) ==
    IF list = << >> THEN << >>
    ELSE IF Head(list) = callback THEN Tail(list)
    ELSE << Head(list) >> \o remove(Tail(list), callback)

\* unregister_callback
unregister_callback(g, key, callback) ==
    IF key \in DOMAIN g.callbacks
    THEN LET left == remove(g.callbacks[key], callback)
         IN  [g EXCEPT !.callbacks =
                 IF left = << >>
                 THEN [k \in (DOMAIN @) \ {key} |-> @[k]]
                 ELSE [@ EXCEPT ![key] = left]]
    ELSE g

\* start_listener: the thread is started and opens its socket
start_listener(g) ==
    IF g.listener_running
    THEN g
    ELSE [g EXCEPT !.listener_running = TRUE,
                   !.sock = "open",
                   !.pc = "loop",
                   !.stopped_at = ""]

\* stop_listener that ends the thread where it is
stop_listener_cancelling(g) ==
    IF ~g.listener_running
    THEN g
    ELSE [g EXCEPT !.listener_running = FALSE,
                   !.sock = "closed",
                   !.pc = "none",
                   !.status = << >>,
                   !.stopped_at = g.pc]

\* stop_listener: the flag is cleared and the socket closed; stopped_at
\* records where the thread was
stop_listener(g) ==
    IF ~g.listener_running
    THEN g
    ELSE [g EXCEPT !.listener_running = FALSE,
                   !.sock = IF @ = "open" THEN "closed" ELSE @,
                   !.stopped_at = g.pc]

\* the callbacks of some key, whatever the key of the record
callbacks_of_any(callbacks, key) ==
    IF DOMAIN callbacks = {}
    THEN << >>
    ELSE callbacks[CHOOSE k \in DOMAIN callbacks : TRUE]

\* _listener_loop: self._callbacks[key] if key in self._callbacks
callbacks_of(callbacks, key) ==
    IF key \in DOMAIN callbacks THEN callbacks[key] ELSE << >>

\* _listener_loop: for callback in self._callbacks[key]: callback(status)
RECURSIVE call_callbacks(_, _, _, _)
call_callbacks(devs, list, status, t) ==
    IF list = << >> THEN devs
    ELSE call_callbacks(
             [devs EXCEPT ![Head(list)].entity =
                 handle_status_update(Fresh(@), status, t)],
             Tail(list), status, t)

\* _listener_loop: the callbacks are notified of the record
notify_callbacks(g, devs, status, t) ==
    call_callbacks(devs,
                   callbacks_of(g.callbacks,
                                << status.subnet, status.device_id >>),
                   status, t)

GatewayInit ==
    /\ EntityIdle
    /\ CodecIdle
    /\ gateway = NewGateway
    /\ devices = << >>

\* setup_platform creates an entity, which registers its callback
AddEntity ==
    \E address \in Addresses :
        /\ Len(devices) < MaxEntities
        /\ devices' = Append(devices,
                             [address |-> address, entity |-> NewEntity])
        /\ gateway' = register_callback(gateway, address, Len(devices) + 1)
        /\ UNCHANGED <<ac, now, op, listener, caller, wire, out>>

\* unregister_callback is called for a callback and a key
UnregisterCallback ==
    \E key \in Addresses, callback \in 1 .. Len(devices) :
        /\ gateway' = unregister_callback(gateway, key, callback)
        /\ UNCHANGED <<ac, now, op, listener, caller, wire, out, devices>>

\* start_listener; stop_listener has joined the thread it stopped
StartListener ==
    /\ gateway.pc = "none"
    /\ gateway' = start_listener(gateway)
    /\ UNCHANGED <<ac, now, op, listener, caller, wire, out, devices>>

StopListener ==
    /\ gateway.listener_running
    /\ gateway' = stop_listener(gateway)
    /\ UNCHANGED <<ac, now, op, listener, caller, wire, out, devices>>

\* the loop as while True: the flag is not read
ListenerLoopForever ==
    /\ gateway.pc = "loop"
    /\ gateway' = [gateway EXCEPT !.pc = "recvfrom"]
    /\ UNCHANGED <<ac, now, op, listener, caller, wire, out, devices>>

\* _listener_loop: while self._listener_running
ListenerLoop ==
    /\ gateway.pc = "loop"
    /\ gateway' = IF gateway.listener_running
                  THEN [gateway EXCEPT !.pc = "recvfrom"]
                  ELSE [gateway EXCEPT !.pc = "none", !.sock = "closed"]
    /\ UNCHANGED <<ac, now, op, listener, caller, wire, out, devices>>

\* _listener_loop: recvfrom returns a packet, which is parsed
ListenerReceive ==
    \E packet \in GatewayPackets :
        /\ gateway.pc = "recvfrom"
        /\ gateway.sock = "open"
        /\ LET status == parse_status_packet(packet)
           IN  gateway' = IF status # << >>
                          THEN [gateway EXCEPT !.pc = "callbacks",
                                               !.status = status]
                          ELSE [gateway EXCEPT !.pc = "loop",
                                               !.status = << >>]
        /\ UNCHANGED <<ac, now, op, listener, caller, wire, out, devices>>

\* _listener_loop: recvfrom times out, or fails on the closed socket
ListenerTimeout ==
    /\ gateway.pc = "recvfrom"
    /\ gateway' = [gateway EXCEPT !.pc = "loop"]
    /\ UNCHANGED <<ac, now, op, listener, caller, wire, out, devices>>

\* _listener_loop: the callbacks of the record's key are called, under
\* _callbacks_lock
ListenerCallbacks ==
    /\ gateway.pc = "callbacks"
    /\ devices' = notify_callbacks(gateway, devices, gateway.status[1], now)
    /\ gateway' = [gateway EXCEPT !.pc = "loop"]
    /\ UNCHANGED <<ac, now, op, listener, caller, wire, out>>

NextGateway ==
    \/ AddEntity
    \/ UnregisterCallback
    \/ StartListener
    \/ StopListener
    \/ ListenerLoop
    \/ ListenerReceive
    \/ ListenerTimeout
    \/ ListenerCallbacks

SpecGateway == GatewayInit /\ [][NextGateway]_vars

---------------------------------------------------------------------------
(* The listener loop with callbacks that raise.  register_callback takes   *)
(* any callable; `raising` is the set of callbacks that raise when they    *)
(* are called with the record, before they change anything.  out holds     *)
(* the callbacks for which the loop logged "Error in status callback".     *)

\* the for loop without the try around callback(status): the first
\* callback that raises ends it
RECURSIVE call_callbacks_until_raise(_, _, _, _, _)
call_callbacks_until_raise(devs, list, status, t, raising) ==
    IF list = << >> THEN devs
    ELSE IF Head(list) \in raising THEN devs
    ELSE call_callbacks_until_raise(
             [devs EXCEPT ![Head(list)].entity =
                 handle_status_update(Fresh(@), status, t)],
             Tail(list), status, t, raising)

\* _listener_loop: for callback in self._callbacks[key]: try:
\* callback(status) except Exception: the error is logged and the loop over
\* the callbacks goes on
RECURSIVE call_callbacks_catching(_, _, _, _, _)
call_callbacks_catching(devs, list, status, t, raising) ==
    IF list = << >> THEN devs
    ELSE call_callbacks_catching(
             IF Head(list) \in raising
             THEN devs
             ELSE [devs EXCEPT ![Head(list)].entity =
                      handle_status_update(Fresh(@), status, t)],
             Tail(list), status, t, raising)

\* _listener_loop: the callbacks of the record's key are called, some of
\* them raising
ListenerCallbacksRaising ==
    \E raising \in SUBSET (1 .. Len(devices)) :
        /\ gateway.pc = "callbacks"
        /\ LET status == gateway.status[1]
               list == callbacks_of(gateway.callbacks,
                                    << status.subnet, status.device_id >>)
           IN  /\ devices' = call_callbacks_catching(devices, list, status,
                                                     now, raising)
               /\ out' = << { i \in raising :
                                \E n \in 1 .. Len(list) : list[n] = i } >>
        /\ gateway' = [gateway EXCEPT !.pc = "loop"]
        /\ UNCHANGED <<ac, now, op, listener, caller, wire>>

NextRaising ==
    \/ AddEntity
    \/ StartListener
    \/ StopListener
    \/ ListenerLoop
    \/ ListenerReceive
    \/ ListenerTimeout
    \/ ListenerCallbacksRaising

SpecRaising == GatewayInit /\ [][NextRaising]_vars

\* the listener thread is scheduled: the while test is made, recvfrom
\* returns after its timeout of one second or fails once the socket is
\* closed, and the callbacks return or raise
SpecRaisingFair ==
    /\ SpecRaising
    /\ WF_vars(ListenerLoop)
    /\ WF_vars(ListenerTimeout)
    /\ WF_vars(ListenerCallbacksRaising)

---------------------------------------------------------------------------
(* The listener restarted.  stop_listener waits for the thread with        *)
(* join(timeout=5.0) and returns when the wait times out; a thread in      *)
(* recvfrom is woken within a second, so the thread that outlives the join *)
(* is one held in a callback.  start_listener then starts a second thread, *)
(* which opens a new socket and stores it in the same attribute _sock.     *)
(* gateway.pc is where the thread started last is, listener where the      *)
(* thread that outlived its stop_listener is.                              *)

\* start_listener after stop_listener returned from a join that timed out
StartAfterJoinTimeout ==
    /\ ~gateway.listener_running
    /\ gateway.pc = "callbacks"
    /\ listener = Idle
    /\ listener' = [pc |-> "callbacks", status |-> gateway.status, kind |-> ""]
    /\ gateway' = [start_listener(gateway) EXCEPT !.status = << >>]
    /\ UNCHANGED <<ac, now, op, caller, wire, out, devices>>

\* the outlived thread: the callbacks of its record are called
OutlivedCallbacks ==
    /\ listener.pc = "callbacks"
    /\ devices' = notify_callbacks(gateway, devices, listener.status[1], now)
    /\ listener' = [listener EXCEPT !.pc = "loop"]
    /\ UNCHANGED <<ac, now, op, caller, wire, out, gateway>>

\* the outlived thread: while self._listener_running, and the finally
\* clause, which closes the socket now in _sock
OutlivedLoop ==
    /\ listener.pc = "loop"
    /\ IF gateway.listener_running
       THEN /\ listener' = [listener EXCEPT !.pc = "recvfrom"]
            /\ UNCHANGED gateway
       ELSE /\ listener' = Idle
            /\ gateway' = [gateway EXCEPT !.sock = "closed"]
    /\ UNCHANGED <<ac, now, op, caller, wire, out, devices>>

\* the outlived thread: recvfrom on the socket now in _sock returns a packet
OutlivedReceive ==
    \E packet \in GatewayPackets :
        /\ listener.pc = "recvfrom"
        /\ gateway.sock = "open"
        /\ LET status == parse_status_packet(packet)
           IN  listener' = IF status # << >>
                           THEN [listener EXCEPT !.pc = "callbacks",
                                                 !.status = status]
                           ELSE [listener EXCEPT !.pc = "loop",
                                                 !.status = << >>]
        /\ UNCHANGED <<ac, now, op, caller, wire, out, gateway, devices>>

\* the outlived thread: recvfrom times out, or fails on a closed socket
OutlivedTimeout ==
    /\ listener.pc = "recvfrom"
    /\ listener' = [listener EXCEPT !.pc = "loop"]
    /\ UNCHANGED <<ac, now, op, caller, wire, out, gateway, devices>>

NextRestart ==
    \/ AddEntity
    \/ StartListener
    \/ StopListener
    \/ ListenerLoop
    \/ ListenerReceive
    \/ ListenerTimeout
    \/ ListenerCallbacks
    \/ StartAfterJoinTimeout
    \/ OutlivedCallbacks
    \/ OutlivedLoop
    \/ OutlivedReceive
    \/ OutlivedTimeout

SpecRestart == GatewayInit /\ [][NextRestart]_vars

---------------------------------------------------------------------------
(* hdl_ac_core.py: split_packet.  A str is a sequence of one-character     *)
(* strings.  What a function returns or raises is a record whose field     *)
(* error is << >> when it returned, else << the exception >>; the          *)
(* exception carries the template name its message starts with, "" when    *)
(* the message names none.                                                 *)

\* the exception with a message that starts with name (if any)
Raise(name, message) == << [name |-> name, message |-> message] >>

\* the digits binascii.unhexlify reads, by value
HexDigits ==
    << "0", "1", "2", "3", "4", "5", "6", "7",
       "8", "9", "a", "b", "c", "d", "e", "f" >>

\* str.lower on one character
lower(c) ==
    CASE c = "A" -> "a" [] c = "B" -> "b" [] c = "C" -> "c"
      [] c = "D" -> "d" [] c = "E" -> "e" [] c = "F" -> "f"
      [] OTHER -> c

\* c in '0123456789abcdef'
is_hex_digit(c) == \E v \in 1 .. 16 : HexDigits[v] = c

hex_value(c) == (CHOOSE v \in 1 .. 16 : HexDigits[v] = c) - 1

\* binascii.unhexlify on a string of hex digits of even length
unhexlify(hex_clean) ==
    [i \in 1 .. (Len(hex_clean) \div 2) |->
        16 * hex_value(hex_clean[2 * i - 1]) + hex_value(hex_clean[2 * i])]

\* binascii.hexlify(...).decode()
hexlify(bytes) ==
    [i \in 1 .. (2 * Len(bytes)) |->
        IF i % 2 = 1 THEN HexDigits[(bytes[(i + 1) \div 2] \div 16) + 1]
        ELSE HexDigits[(bytes[i \div 2] % 16) + 1]]

\* split_packet
split_packet(hex_string) ==
    LET lowered == [i \in 1 .. Len(hex_string) |-> lower(hex_string[i])]
        hex_clean == SelectSeq(lowered, is_hex_digit)
    IN  IF Len(hex_clean) % 2 = 1
        THEN [error |-> Raise("", "Odd-length string"),
              prefix |-> << >>, frame |-> << >>]
        ELSE LET packet_bytes == unhexlify(hex_clean)
                 aa_pos == find_marker(packet_bytes, 0)
             IN  IF aa_pos < 0
                 THEN [error |-> Raise("", "0xAA 0xAA marker not found in packet"),
                       prefix |-> << >>, frame |-> << >>]
                 ELSE [error |-> << >>,
                       prefix |-> Slice(packet_bytes, 0, aa_pos),
                       frame |-> Slice(packet_bytes, aa_pos, Len(packet_bytes))]

\* the longest string handed to split_packet
MaxHex == 6

\* the characters of the strings handed to split_packet: the digit of the
\* marker in both cases, another digit, and a character that is no digit
HexChars == {"a", "A", "0", " "}

\* the strings handed to split_packet
HexStrings == UNION { [1 .. n -> HexChars] : n \in 0 .. MaxHex }

InitSplit ==
    /\ EntityIdle
    /\ GatewayIdle
    /\ wire \in HexStrings
    /\ out = << >>

\* split_packet is called
Split ==
    /\ out = << >>
    /\ out' = << split_packet(wire) >>
    /\ UNCHANGED <<ac, now, op, listener, caller, gateway, devices, wire>>

NextSplit == Split

SpecSplit == InitSplit /\ [][NextSplit]_vars

---------------------------------------------------------------------------
(* hdl_ac_core.py: discover_protocol, build_packet and                     *)
(* build_status_request.  The templates are a function from template       *)
(* names to hex strings; the schema is a record with the keys of the dict  *)
(* returned, None being None for a position and << >> for a frame.         *)

\* what discover_protocol gives when it raises error
no_schema(error) == [error |-> error, schema |-> << >>]

\* split_packet(templates[name]) and validate_frame(frame, name)
split_and_validate(templates, name) ==
    LET split == split_packet(templates[name])
        checked == validate_frame(split.frame)
    IN  IF split.error # << >> THEN split
        ELSE IF checked # "valid"
        THEN [error |-> Raise(name, checked), prefix |-> << >>, frame |-> << >>]
        ELSE split

\* frame[3:-2]
data_area_of(frame) == Slice(frame, 3, Len(frame) - 2)

\* every position compared, from i on, whether the bytes differ or not
RECURSIVE compared_positions(_, _, _)
compared_positions(a, b, i) ==
    IF i >= Len(a) \/ i >= Len(b) THEN << >>
    ELSE << i >> \o compared_positions(a, b, i + 1)

\* the positions i, from i on, with a[i] != b[i], in the order of the loop
RECURSIVE differing_positions(_, _, _)
differing_positions(a, b, i) ==
    IF i >= Len(a) \/ i >= Len(b) THEN << >>
    ELSE (IF At(a, i) # At(b, i) THEN << i >> ELSE << >>)
            \o differing_positions(a, b, i + 1)

\* the first position with val_24 - val_23 = delta instead of the last
RECURSIVE first_position_with_delta(_, _, _, _, _)
first_position_with_delta(data_cool_23, data_fan_24, delta, i, found) ==
    IF i >= Len(data_cool_23) \/ i >= Len(data_fan_24) THEN found
    ELSE IF found = None /\ At(data_fan_24, i) - At(data_cool_23, i) = delta
    THEN first_position_with_delta(data_cool_23, data_fan_24, delta, i + 1, i)
    ELSE first_position_with_delta(data_cool_23, data_fan_24, delta, i + 1, found)

\* the loop over differences: the position left in temperature_position
\* (delta 1) or mode_position (delta 2) after the positions from i on
RECURSIVE position_with_delta(_, _, _, _, _)
position_with_delta(data_cool_23, data_fan_24, delta, i, found) ==
    IF i >= Len(data_cool_23) \/ i >= Len(data_fan_24) THEN found
    ELSE IF At(data_fan_24, i) - At(data_cool_23, i) = delta
    THEN position_with_delta(data_cool_23, data_fan_24, delta, i + 1, i)
    ELSE position_with_delta(data_cool_23, data_fan_24, delta, i + 1, found)

\* discover_protocol
discover_protocol(templates) ==
    LET names == DOMAIN templates
        off == split_and_validate(templates, "off")
        on == split_and_validate(templates, "on")
        on_14 == split_and_validate(templates, "on_1.14")
        data_off == data_area_of(off.frame)
        data_on == data_area_of(on.frame)
        data_on_14 == data_area_of(on_14.frame)
        opcode_positions == differing_positions(data_off, data_on, 0)
        address_positions == differing_positions(data_on, data_on_14, 0)
        pair == "cool_23c" \in names /\ "fan_24c" \in names
        cool_23 == split_and_validate(templates, "cool_23c")
        fan_24 == split_and_validate(templates, "fan_24c")
        data_cool_23 == data_area_of(cool_23.frame)
        data_fan_24 == data_area_of(fan_24.frame)
        status_req == split_and_validate(templates, "status_request")
    IN  IF "off" \notin names
        THEN no_schema(Raise("", "Missing 'off' template for 1.13"))
        ELSE IF "on" \notin names
        THEN no_schema(Raise("", "Missing 'on' template for 1.13"))
        ELSE IF "on_1.14" \notin names
        THEN no_schema(Raise("", "Missing 'on_1.14' template"))
        ELSE IF off.error # << >> THEN no_schema(off.error)
        ELSE IF on.error # << >> THEN no_schema(on.error)
        ELSE IF on_14.error # << >> THEN no_schema(on_14.error)
        ELSE IF opcode_positions = << >>
        THEN no_schema(Raise("",
                 "Could not discover opcode positions (off vs on identical)"))
        ELSE IF address_positions = << >>
        THEN no_schema(Raise("",
                 "Could not discover address positions (on vs on_1.14 identical)"))
        ELSE IF pair /\ cool_23.error # << >> THEN no_schema(cool_23.error)
        ELSE IF pair /\ fan_24.error # << >> THEN no_schema(fan_24.error)
        ELSE [error |-> << >>,
              schema |-> <<
                [address_positions |-> address_positions,
                 opcode_positions |-> opcode_positions,
                 temperature_position |->
                     IF pair
                     THEN position_with_delta(data_cool_23, data_fan_24, 1, 0, None)
                     ELSE None,
                 mode_position |->
                     IF pair
                     THEN position_with_delta(data_cool_23, data_fan_24, 2, 0, None)
                     ELSE None,
                 fan_speed_position |-> 15,
                 base_off_frame |-> off.frame,
                 base_on_frame |-> on.frame,
                 base_cool_frame |-> IF pair THEN cool_23.frame ELSE << >>,
                 base_status_request_frame |->
                     IF "status_request" \in names /\ status_req.error = << >>
                     THEN status_req.frame
                     ELSE << >>,
                 prefix |-> off.prefix] >>]

\* what a builder gives when it raises error
no_frame(error) == [error |-> error, frame |-> << >>]

\* the assignment skipped, instead of an IndexError, outside the bytearray
set_byte_unchecked(built, index, value) ==
    IF built.error # << >> THEN built
    ELSE IF index >= Len(built.frame) THEN built
    ELSE IF value \notin 0 .. 255
    THEN [error |-> Raise("", "byte must be in range(0, 256)"), frame |-> << >>]
    ELSE [built EXCEPT !.frame[index + 1] = value]

\* frame[index] = value on the bytearray, unless a statement before it raised
set_byte(built, index, value) ==
    IF built.error # << >> THEN built
    ELSE IF index >= Len(built.frame)
    THEN no_frame(Raise("", "bytearray index out of range"))
    ELSE IF value \notin 0 .. 255
    THEN no_frame(Raise("", "byte must be in range(0, 256)"))
    ELSE [built EXCEPT !.frame[index + 1] = value]

\* the end of both builders without the CRC: the length byte only
update_length_only(built) ==
    set_byte(built, 2, Len(built.frame) - 3 + 1)

\* the end of both builders: the length byte, then the CRC by append_hdl_crc
update_length_and_crc(built) ==
    LET with_length == set_byte(built, 2, Len(built.frame) - 3 + 1)
    IN  IF with_length.error # << >> THEN with_length
        ELSE [with_length EXCEPT
                 !.frame = Slice(@, 0, 2)
                              \o append_hdl_crc(Slice(@, 2, Len(@)))]

\* the schema after a builder that wrote into the base frame itself: the
\* reference frame it built on holds what it built
schema_written_through(schema, base, built) ==
    IF built.error # << >> THEN schema
    ELSE [field \in DOMAIN schema |->
             IF field \in {"base_off_frame", "base_on_frame",
                           "base_cool_frame", "base_status_request_frame"}
                /\ schema[field] = base
             THEN built.frame ELSE schema[field]]

\* frame = bytearray(base): both builders write into a copy of the base
\* frame, and append_hdl_crc into a copy of frame[2:]; the schema handed in
\* is as it was when the builder returns
schema_after_copy(schema, base, built) == schema

\* build_status_request
build_status_request(subnet, device, schema) ==
    IF schema.base_status_request_frame = << >>
    THEN no_frame(Raise("", "Status request template not available in schema"))
    ELSE LET frame == [error |-> << >>,
                       frame |-> schema.base_status_request_frame]
         IN  update_length_and_crc(
                 set_byte(set_byte(frame, 3 + 6, subnet), 3 + 7, device))

\* the base template chosen whenever any of the three overrides is given
base_frame_any_override(verb, schema, temperature, hvac_mode, fan_speed) ==
    IF verb = "off" THEN schema.base_off_frame
    ELSE IF schema.base_cool_frame # << >>
            /\ (temperature # None \/ hvac_mode # None \/ fan_speed # None)
    THEN schema.base_cool_frame
    ELSE schema.base_on_frame

\* build_packet: the base template chosen for the verbs "off" and "on"
base_frame(verb, schema, temperature, hvac_mode, fan_speed) ==
    IF verb = "off" THEN schema.base_off_frame
    ELSE IF schema.base_cool_frame # << >>
            /\ (temperature # None \/ hvac_mode # None)
    THEN schema.base_cool_frame
    ELSE schema.base_on_frame

\* build_packet: the loop over address_positions, from the i-th on
RECURSIVE write_address_positions(_, _, _, _, _)
write_address_positions(built, address_positions, i, subnet, device) ==
    IF i > Len(address_positions) THEN built
    ELSE LET pos == address_positions[i]
             written == IF pos = 6 THEN set_byte(built, 3 + pos, subnet)
                        ELSE IF pos = 7 THEN set_byte(built, 3 + pos, device)
                        ELSE built
         IN  write_address_positions(written, address_positions, i + 1,
                                     subnet, device)

\* the override written only when it is in 18..30
write_override_typical(built, value, position) ==
    IF value # None /\ position # None /\ value \in 18 .. 30
    THEN set_byte(built, 3 + position, value)
    ELSE built

\* build_packet: the override written at the schema's position, when both
\* are given
write_override(built, value, position) ==
    IF value # None /\ position # None
    THEN set_byte(built, 3 + position, value)
    ELSE built

\* build_packet, for a verb in lower case
build_packet(verb, subnet, device, schema, temperature, hvac_mode, fan_speed) ==
    IF verb \notin {"off", "on"}
    THEN no_frame(Raise("", "Unknown verb"))
    ELSE LET frame == [error |-> << >>,
                       frame |-> base_frame(verb, schema, temperature,
                                            hvac_mode, fan_speed)]
             addressed ==
                 write_address_positions(
                     set_byte(set_byte(frame, 3 + 6, subnet), 3 + 7, device),
                     schema.address_positions, 1, subnet, device)
             with_temperature ==
                 write_override(addressed, temperature,
                                schema.temperature_position)
             with_mode ==
                 write_override(with_temperature, hvac_mode,
                                schema.mode_position)
             with_fan_speed ==
                 write_override(with_mode, fan_speed,
                                schema.fan_speed_position)
         IN  update_length_and_crc(with_fan_speed)

---------------------------------------------------------------------------
(* The codec from templates to frames: a templates dict is given,          *)
(* discover_protocol is called on it, the gateway keeps the schema         *)
(* returned, and the builders are called with that schema.  wire holds     *)
(* what is handed in: the templates, then the schema and the arguments of  *)
(* the call; out holds what came back.                                     *)

\* the number of calls made with one schema
MaxCalls == 2

\* the names of the templates discover_protocol reads
TemplateNames == {"off", "on", "on_1.14", "cool_23c", "fan_24c", "status_request"}

\* the bytes before the marker in every template
Prefix == << 72, 68, 76 >>

\* the data area of a command template of n bytes: subnet and device at
\* 6 and 7, the power byte at 8, temperature and mode at 10 and 11, one
\* more byte at 12, zero elsewhere
CommandData(n, subnet, device, power, temperature, mode, more) ==
    [i \in 1 .. n |->
        CASE i = 7 -> subnet
          [] i = 8 -> device
          [] i = 9 -> power
          [] i = 11 -> temperature
          [] i = 12 -> mode
          [] i = 13 -> more
          [] OTHER -> 0]

\* the hex string of a template with that data area
Template(data_area) == hexlify(Prefix \o Frame(data_area))

\* a full set of templates for device 1.13 and second device 1.14: the
\* exemplars for 23 C in COOL and 24 C in FAN, and a status request with a
\* data area of 9 bytes
StandardTemplates ==
    [name \in TemplateNames |->
        CASE name = "off" -> Template(CommandData(17, 1, 13, 0, 0, 0, 0))
          [] name = "on" -> Template(CommandData(17, 1, 13, 1, 0, 0, 0))
          [] name = "on_1.14" -> Template(CommandData(17, 1, 14, 1, 0, 0, 0))
          [] name = "cool_23c" -> Template(CommandData(17, 1, 13, 1, 23, 0, 0))
          [] name = "fan_24c" -> Template(CommandData(17, 1, 13, 1, 24, 2, 0))
          [] name = "status_request" ->
                 Template(CommandData(9, 1, 13, 0, 0, 0, 0))]

\* templates without the one called name, and with hex_string under name
Without(templates, name) ==
    [other \in DOMAIN templates \ {name} |-> templates[other]]

With(templates, name, hex_string) ==
    [other \in DOMAIN templates \cup {name} |->
        IF other = name THEN hex_string ELSE templates[other]]

\* a template malformed: its last hex digit missing, its marker broken, its
\* length byte one too large, or the last bit of its CRC flipped
Malformed(hex_string, defect) ==
    LET bytes == unhexlify(hex_string)
        first == Len(Prefix) + 1
    IN  CASE defect = "hex" -> SubSeq(hex_string, 1, Len(hex_string) - 1)
          [] defect = "marker" -> hexlify([bytes EXCEPT ![first + 1] = 0])
          [] defect = "length" -> hexlify([bytes EXCEPT ![first + 2] = @ + 1])
          [] defect = "crc" ->
                 hexlify([bytes EXCEPT ![Len(bytes)] = FlipBitOf(@, 0)])

\* other exemplar pairs (cool_23c, fan_24c): the two in the other order;
\* one more byte that differs by 1; the same temperature; a difference of
\* 3 only; and a pair with data areas of 14 bytes, whose position 15 is the
\* last CRC byte
ExemplarPairs ==
    { << CommandData(17, 1, 13, 1, 24, 2, 0), CommandData(17, 1, 13, 1, 23, 0, 0) >>,
      << CommandData(17, 1, 13, 1, 23, 0, 0), CommandData(17, 1, 13, 1, 24, 2, 1) >>,
      << CommandData(17, 1, 13, 1, 23, 0, 0), CommandData(17, 1, 13, 1, 23, 2, 0) >>,
      << CommandData(17, 1, 13, 1, 23, 0, 0), CommandData(17, 1, 13, 1, 26, 0, 0) >>,
      << CommandData(14, 1, 13, 1, 23, 0, 0), CommandData(14, 1, 13, 1, 24, 2, 0) >> }

\* the templates dicts given: the standard one; with one template missing;
\* with one template malformed; with an exemplar alone and malformed; with
\* "on" copied over "off", over "on_1.14" and over both; with another
\* exemplar pair; with a second device on subnet 2, and one whose number is
\* at position 5 of the data area; with a status request of 5 data bytes;
\* and command templates of 2 data bytes alone
TemplateSets ==
    { StandardTemplates }
    \cup { Without(StandardTemplates, name) : name \in TemplateNames }
    \cup { With(StandardTemplates, name,
                Malformed(StandardTemplates[name], defect)) :
              name \in TemplateNames, defect \in {"hex", "marker", "length", "crc"} }
    \cup { With(Without(StandardTemplates, "fan_24c"), "cool_23c",
                Malformed(StandardTemplates["cool_23c"], defect)) :
              defect \in {"hex", "marker", "length", "crc"} }
    \cup { With(StandardTemplates, "off", StandardTemplates["on"]),
           With(StandardTemplates, "on_1.14", StandardTemplates["on"]),
           With(With(StandardTemplates, "off", StandardTemplates["on"]),
                "on_1.14", StandardTemplates["on"]) }
    \cup { With(With(StandardTemplates, "cool_23c", Template(pair[1])),
                "fan_24c", Template(pair[2])) : pair \in ExemplarPairs }
    \cup { With(StandardTemplates, "on_1.14", Template(data_area)) :
              data_area \in
                  { CommandData(17, 2, 14, 1, 0, 0, 0),
                    [CommandData(17, 1, 13, 1, 0, 0, 0) EXCEPT ![6] = 14] } }
    \cup { With(StandardTemplates, "status_request",
                Template(CommandData(5, 1, 13, 0, 0, 0, 0))) }
    \cup { [name \in {"off", "on", "on_1.14"} |->
               CASE name = "off" -> Template(<< 0, 0 >>)
                 [] name = "on" -> Template(<< 1, 0 >>)
                 [] name = "on_1.14" -> Template(<< 1, 1 >>)] }

InitCodec ==
    /\ EntityIdle
    /\ GatewayIdle
    /\ \E templates \in TemplateSets :
           wire = [templates |-> templates, schema |-> << >>, call |-> << >>,
                   calls |-> 0]
    /\ out = << >>

\* discover_protocol is called on the templates
Discover ==
    /\ wire.schema = << >>
    /\ out = << >>
    /\ out' = << discover_protocol(wire.templates) >>
    /\ UNCHANGED <<ac, now, op, listener, caller, gateway, devices, wire>>

\* HdlGateway.__init__ keeps the schema returned as protocol_schema; the
\* templates dict stays with its owner
KeepSchema ==
    /\ wire.schema = << >>
    /\ out # << >>
    /\ out[1].error = << >>
    /\ wire' = [wire EXCEPT !.schema = out[1].schema]
    /\ out' = << >>
    /\ UNCHANGED <<ac, now, op, listener, caller, gateway, devices>>

\* build_packet is called with the schema kept, a verb, an address, and
\* each override given or not (None)
BuildPacket ==
    \E verb \in {"off", "on", "up"},
       address \in {<< 1, 13 >>, << 2, 254 >>},
       temperature \in {None, 17, 25, 31, 256},
       hvac_mode \in {None, HVAC_MODE_FAN},
       fan_speed \in {None, FAN_SPEED_LOW} :
        /\ wire.schema # << >>
        /\ wire.call = << >>
        /\ wire.calls < MaxCalls
        /\ out' = << build_packet(verb, address[1], address[2],
                                  wire.schema[1], temperature, hvac_mode,
                                  fan_speed) >>
        /\ wire' = [wire EXCEPT
                       !.call =
                           << [function |-> "build_packet", verb |-> verb,
                               subnet |-> address[1], device |-> address[2],
                               temperature |-> temperature,
                               hvac_mode |-> hvac_mode,
                               fan_speed |-> fan_speed] >>,
                       !.calls = @ + 1,
                       !.schema =
                           << schema_after_copy(
                                  @[1],
                                  IF verb \in {"off", "on"}
                                  THEN base_frame(verb, @[1], temperature,
                                                  hvac_mode, fan_speed)
                                  ELSE << >>,
                                  out'[1]) >>]
        /\ UNCHANGED <<ac, now, op, listener, caller, gateway, devices>>

\* build_status_request is called with the schema kept
BuildStatusRequest ==
    \E address \in {<< 1, 13 >>, << 2, 254 >>} :
        /\ wire.schema # << >>
        /\ wire.call = << >>
        /\ wire.calls < MaxCalls
        /\ out' = << build_status_request(address[1], address[2],
                                          wire.schema[1]) >>
        /\ wire' = [wire EXCEPT
                       !.call =
                           << [function |-> "build_status_request",
                               verb |-> "", subnet |-> address[1],
                               device |-> address[2], temperature |-> None,
                               hvac_mode |-> None, fan_speed |-> None] >>,
                       !.calls = @ + 1,
                       !.schema =
                           << schema_after_copy(
                                  @[1], @[1].base_status_request_frame,
                                  out'[1]) >>]
        /\ UNCHANGED <<ac, now, op, listener, caller, gateway, devices>>

\* discover_protocol is called once more on the same templates, when a
\* schema is kept already
DiscoverAgain ==
    /\ wire.schema # << >>
    /\ wire.call = << >>
    /\ wire.calls < MaxCalls
    /\ out' = << discover_protocol(wire.templates) >>
    /\ wire' = [wire EXCEPT
                   !.call =
                       << [function |-> "discover_protocol", verb |-> "",
                           subnet |-> None, device |-> None,
                           temperature |-> None, hvac_mode |-> None,
                           fan_speed |-> None] >>,
                   !.calls = @ + 1]
    /\ UNCHANGED <<ac, now, op, listener, caller, gateway, devices>>

\* the caller has what the call returned, and goes on
Return ==
    /\ wire.call # << >>
    /\ wire' = [wire EXCEPT !.call = << >>]
    /\ out' = << >>
    /\ UNCHANGED <<ac, now, op, listener, caller, gateway, devices>>

NextCodec ==
    \/ Discover
    \/ KeepSchema
    \/ BuildPacket
    \/ BuildStatusRequest
    \/ DiscoverAgain
    \/ Return

SpecCodec == InitCodec /\ [][NextCodec]_vars

---------------------------------------------------------------------------
(* Properties.  A step of Spec that leaves `now` unchanged and is no       *)
(* stuttering step is one call of a method: op' names the method and its   *)
(* inputs, ac the entity before the call and ac' the entity after it.      *)

Visible(e) == <<e.hvac_mode, e.target_temperature, e.fan_mode>>

\* the step is a call of _handle_status_update
StatusStep == op'.kind = "status" /\ now' = now

\* the record passed by the call of a StatusStep, and the last record passed
Received == op'.status[1]
LastReceived == op.status[1]

\* a command is pending and it is the one of turn_off
OffPending ==
    /\ ac.pending_command # << >>
    /\ ac.pending_command[1].is_on = "False"

\* less than 2.5 s have passed since the last command was recorded
InWindow == now - ac.last_command_sent < Window

\* C1 -- Echo suppression: after turn_off was issued and its frame sent, a
\* status record received less than 2.5 s later that reports the device on
\* leaves the HVAC mode OFF and the target temperature and the fan mode as
\* they were.
C1_EchoSuppressed ==
    [][ (StatusStep /\ OffPending /\ op.sent = "ok" /\ InWindow
            /\ Received.is_on = "True")
        => /\ ac'.hvac_mode = HVAC_OFF
           /\ ac'.target_temperature = ac.target_temperature
           /\ ac'.fan_mode = ac.fan_mode ]_vars

\* C1, reached: the record the entity applied before turn_off (device on, in
\* COOL, at the visible temperature) came again after a turn_off whose frame
\* was sent, the window of that turn_off is still open, and the entity is OFF.
C1_Witness ==
    /\ op.kind = "status"
    /\ LastReceived.is_on = "True"
    /\ LastReceived.hvac_mode = HVAC_MODE_COOL
    /\ LastReceived.temperature = ac.target_temperature
    /\ ac.last_status = op.status
    /\ OffPending
    /\ op.sent = "ok"
    /\ InWindow
    /\ ac.hvac_mode = HVAC_OFF
    /\ ac.notify = 0

\* a record with every field decoded, the device on or off, in a mode the
\* entity exposes
FullyDecoded(status) ==
    /\ status.is_on \in {"True", "False"}
    /\ status.hvac_mode \in {HVAC_MODE_COOL, HVAC_MODE_FAN}
    /\ status.temperature # None
    /\ status.fan_speed \in {FAN_SPEED_AUTO, FAN_SPEED_HIGH}

\* the visible state shows what the record reports: power, and for a device
\* that is on its mode and target temperature, and the fan speed
Shows(e, status) ==
    /\ status.is_on = "False" => e.hvac_mode = HVAC_OFF
    /\ status.is_on = "True" =>
          /\ e.hvac_mode =
                IF status.hvac_mode = HVAC_MODE_FAN
                THEN HVAC_FAN_ONLY ELSE HVAC_COOL
          /\ e.target_temperature = status.temperature
    /\ e.fan_mode = IF status.fan_speed = FAN_SPEED_HIGH
                    THEN FAN_HIGH ELSE FAN_AUTO

\* C2 -- Post-window authority, for the fully decoded records: a status
\* record received 2.5 s or more after the last command makes the visible
\* state show what it reports, and a notification is made when the visible
\* state did not show it before.
C2_PostWindowAuthority ==
    [][ (StatusStep /\ ~InWindow /\ FullyDecoded(Received))
        => /\ Shows(ac', Received)
           /\ ~Shows(ac, Received) => ac'.notify >= 1 ]_vars

\* the pending command of a PowerOn frame built from the fields of e
OnTarget(e) ==
    [is_on |-> "True",
     temperature |-> e.target_temperature,
     hvac_mode |-> IF e.hvac_mode = HVAC_FAN_ONLY
                   THEN HVAC_MODE_FAN ELSE HVAC_MODE_COOL,
     fan_speed |-> IF e.fan_mode = FAN_HIGH
                   THEN FAN_SPEED_HIGH ELSE FAN_SPEED_AUTO]

C4_Optimism ==
    [][ (op.kind = "set_temperature" /\ op.temperature # None
            /\ op'.kind = "turn_on" /\ op'.sent = "ok")
        => /\ ac'.hvac_mode # HVAC_OFF
           /\ ac'.target_temperature = op.temperature ]_vars

\* C4, reached: no status record was ever accepted, the entity was OFF at the
\* default temperature, and after set_temperature and turn_on it is on at
\* the commanded temperature, with that frame pending.
C4_Witness ==
    /\ op.kind = "turn_on"
    /\ op.sent = "ok"
    /\ ac.last_status = << >>
    /\ ac.hvac_mode = HVAC_COOL
    /\ ac.target_temperature = DefaultTemperature + 1
    /\ ac.pending_command # << >>
    /\ ac.pending_command[1].temperature = DefaultTemperature + 1
    /\ ac.notify = 1

\* C5 -- Serialization, under the threads of SpecThreads: a call of
\* _handle_status_update and a call of turn_on or turn_off do not overlap,
\* so a fully decoded status record applied while no command is running
\* passed its window check after the last command was recorded: it is not
\* applied less than 2.5 s after that command.
C5_NoStatusOverCommand ==
    [][ (listener.pc = "accepted" /\ listener'.pc = "idle"
            /\ caller.pc = "idle" /\ FullyDecoded(listener.status[1]))
        => ~InWindow ]_vars

C7_NotifyIffChanged ==
    [][ now' = now
        => (ac'.notify >= 1 <=> Visible(ac') # Visible(ac)) ]_vars

\* C7 as amended -- _handle_status_update notifies once when it changed a
\* visible field and not at all otherwise.  The commands notify on the
\* result of the send, not on a change: turn_on, turn_off, set_fan_mode and
\* set_hvac_mode (to OFF, COOL, FAN_ONLY) notify once when send_packet
\* returns True and not when it returns False, and set_temperature with a
\* temperature always notifies.
C7_NotifyRule ==
    [][ now' = now =>
        /\ op'.kind = "status" =>
              ac'.notify = IF Visible(ac') # Visible(ac) THEN 1 ELSE 0
        /\ (\/ op'.kind \in {"turn_on", "turn_off", "set_fan_mode"}
            \/ /\ op'.kind = "set_hvac_mode"
               /\ op'.hvac_mode \in {HVAC_OFF, HVAC_COOL, HVAC_FAN_ONLY}) =>
              ac'.notify = IF op'.sent = "ok" THEN 1 ELSE 0
        /\ (op'.kind = "set_temperature" /\ op'.temperature # None) =>
              ac'.notify >= 1 ]_vars

\* C7, reached: a status record was accepted, changed the visible state and
\* one notification was made.
C7_Witness ==
    /\ op.kind = "status"
    /\ ac.last_status = op.status
    /\ LastReceived.is_on = "True"
    /\ ac.hvac_mode = HVAC_FAN_ONLY
    /\ ac.notify = 1

\* C8 -- the target temperature is not changed by a status record while the
\* entity is OFF before and after the record's power and mode are applied
\* (stated for the records whose power flag is decoded).
C8_NoTemperatureWhileOff ==
    [][ (StatusStep /\ Received.is_on # "None"
            /\ ac.hvac_mode = HVAC_OFF /\ ac'.hvac_mode = HVAC_OFF)
        => ac'.target_temperature = ac.target_temperature ]_vars

\* the entity is on
PowerOn(e) == e.hvac_mode # HVAC_OFF

C10_DryShownAsCool ==
    [][ (StatusStep /\ ~InWindow
            /\ Received.is_on = "True" /\ Received.hvac_mode = HVAC_MODE_DRY)
        => ac'.hvac_mode = HVAC_COOL ]_vars


\* C11 -- Confirmation without noise: after a turn_off whose frame was sent,
\* a status record received less than 2.5 s later that reports the device off
\* makes no notification and changes no visible field: the entity stays OFF.
C11_ConfirmationWithoutNoise ==
    [][ (StatusStep /\ OffPending /\ op.sent = "ok" /\ InWindow
            /\ Received.is_on = "False")
        => /\ ac'.notify = 0
           /\ ac'.hvac_mode = HVAC_OFF
           /\ Visible(ac') = Visible(ac) ]_vars

\* C11, reached: inside the window of a sent turn_off a record reporting the
\* device off, with a fan speed other than the visible one, was received; the
\* entity is OFF, its fan mode is as before and no notification was made.
C11_Witness ==
    /\ op.kind = "status"
    /\ LastReceived.is_on = "False"
    /\ LastReceived.fan_speed = FAN_SPEED_HIGH
    /\ OffPending
    /\ op.sent = "ok"
    /\ InWindow
    /\ ac.hvac_mode = HVAC_OFF
    /\ ac.fan_mode = FAN_AUTO
    /\ ac.last_status # op.status
    /\ ac.notify = 0


\* the step hands a frame to gateway.send_packet
HandOver == caller.pc = "idle" /\ caller'.pc = "sending"

\* the step is the window check of _handle_status_update, passed
WindowPassed == listener.pc = "idle" /\ listener'.pc = "accepted"

CrcOf(bytes) ==
    LET crc == crc_loop(bytes, Len(bytes), 0, 0)
    IN  << crc \div 256, crc % 256 >>

\* C19 -- CRC round trip: marker + length byte + data area + the (high, low)
\* bytes of compute_hdl_crc passes validate_frame, and with any single bit
\* of its length byte or data area flipped it fails validate_frame.
C19_CrcRoundTrip ==
    /\ (out = FrameOut("framed", out.result) /\ out.result # << >>)
          => out.result = << "valid" >>
    /\ (out = FrameOut("flipped", out.result) /\ out.result # << >>)
          => out.result # << "valid" >>

\* C19, reached: a frame with a data area of MaxData bytes had a bit of its
\* data area flipped, the length byte being intact, and validate_frame
\* raised the CRC mismatch.
C19_Witness ==
    /\ out = FrameOut("flipped", << "CRC MISMATCH" >>)
    /\ Len(wire) = MaxData + 5
    /\ wire[3] = MaxData + 3

\* the four conditions of a valid frame
Accepts(frame) ==
    /\ Len(frame) >= 4
    /\ frame[1] = 170 /\ frame[2] = 170
    /\ frame[3] = 1 + (Len(frame) - 3)
    /\ << frame[Len(frame) - 1], frame[Len(frame)] >>
          = CrcOf(SubSeq(frame, 3, Len(frame) - 2))

\* C20 -- validate_frame accepts a frame exactly when it has at least 4
\* bytes, starts with 0xAA 0xAA, its length byte equals 1 + (len(frame) - 3)
\* and its last two bytes are the CRC of frame[2:-2] as (high, low).
C20_ValidateExactly ==
    out.result # << >> => (out.result = << "valid" >> <=> Accepts(wire))

\* C20, reached: a given string of 6 bytes with the marker and the right
\* length byte, not framed by Frame, had its CRC written and is accepted.
C20_Witness ==
    /\ out = FrameOut("sealed", << "valid" >>)
    /\ Len(wire) = 6


\* the packet holds the marker 0xAA 0xAA
HasMarker(packet) ==
    \E i \in 1 .. Len(packet) - 1 : packet[i] = 170 /\ packet[i + 1] = 170

\* the packet from its first marker on
FrameOf(packet) ==
    LET first == CHOOSE i \in 1 .. Len(packet) - 1 :
                     /\ packet[i] = 170 /\ packet[i + 1] = 170
                     /\ \A j \in 1 .. i - 1 :
                            ~(packet[j] = 170 /\ packet[j + 1] = 170)
    IN  SubSeq(packet, first, Len(packet))

\* the byte after the marker of the packet received, and the byte at
\* position i of its data area
TypeByte == FrameOf(wire)[3]
DataByte(i) == FrameOf(wire)[4 + i]

\* parse_status_packet has returned; what it returned; the record returned
Returned == out # << >>
ReturnedNone == out = << << >> >>
Record == out[1][1]

\* C15 -- Decoder robustness: parse_status_packet returns for every packet,
\* and it returns None when the packet has no marker 0xAA 0xAA, when the
\* byte after the marker is none of 0x18, 0x19, 0x1A, and when that byte
\* is not the number of bytes that follow it plus one.
C15_DecoderRobust ==
    Returned =>
        ((\/ ~HasMarker(wire)
          \/ Len(FrameOf(wire)) < 3
          \/ TypeByte \notin {24, 25, 26}
          \/ TypeByte - 1 # Len(FrameOf(wire)) - 3)
         => ReturnedNone)

\* C15, reached: a packet with the marker, the length byte 0x1B of no status
\* frame, that many bytes and a valid CRC was parsed, and None was returned.
C15_Witness ==
    /\ ReturnedNone
    /\ HasMarker(wire)
    /\ TypeByte = 27
    /\ validate_frame(FrameOf(wire)) = "valid"

\* C16 -- a packet whose frame fails validate_frame with a CRC mismatch (the
\* marker and the length byte being right) is dropped: parse_status_packet
\* returns None for it.
C16_CrcMismatchDropped ==
    (Returned /\ HasMarker(wire)
        /\ validate_frame(FrameOf(wire)) = "CRC MISMATCH")
    => ReturnedNone

\* C17 -- Decoded power flag and address: in a record returned, subnet and
\* device_id are the bytes 0 and 1 of the data area; for the types 0x18 and
\* 0x1A is_on is true exactly when byte 15 is not 0x20, and for the type
\* 0x19 exactly when byte 9 is 0x01.
C17_PowerFlag ==
    (Returned /\ ~ReturnedNone) =>
        /\ Record.subnet = DataByte(0)
        /\ Record.device_id = DataByte(1)
        /\ Record.is_on \in {"True", "False"}
        /\ TypeByte \in {24, 26} =>
              (Record.is_on = "True" <=> DataByte(15) # 32)
        /\ TypeByte = 25 =>
              (Record.is_on = "True" <=> DataByte(9) = 1)

\* C17, reached: a frame of type 0x19 whose byte 9 is 0x00 and whose byte 15
\* is 0x01 was decoded as off.
C17_Witness ==
    /\ Returned /\ ~ReturnedNone
    /\ TypeByte = 25
    /\ DataByte(9) = 0
    /\ DataByte(15) = 1
    /\ Record.is_on = "False"
    /\ Record.device_id = 14

\* the setpoint byte of the packet received
SetpointByte == IF TypeByte = 25 THEN DataByte(10) ELSE DataByte(11)

\* C18 -- Ranges of a record returned: temperature is absent or in 16..35,
\* current_temperature absent or in 10..50, hvac_mode absent or one of
\* 0x00, 0x02, 0x04, fan_speed absent or in 0..3 and absent for the type
\* 0x18; a byte out of range or not recognized gives an absent field, and a
\* byte in range gives the byte.
C18_FieldRanges ==
    (Returned /\ ~ReturnedNone) =>
        /\ Record.temperature \in {None} \cup (16 .. 35)
        /\ Record.current_temperature \in {None} \cup (10 .. 50)
        /\ Record.hvac_mode
              \in {None, HVAC_MODE_COOL, HVAC_MODE_FAN, HVAC_MODE_DRY}
        /\ Record.fan_speed \in {None} \cup (0 .. 3)
        /\ TypeByte = 24 => Record.fan_speed = None
        /\ Record.temperature =
              (IF SetpointByte \in 16 .. 35 THEN SetpointByte ELSE None)
        /\ Record.current_temperature =
              (IF DataByte(10) \in 10 .. 50 THEN DataByte(10) ELSE None)
        /\ Record.hvac_mode =
              (IF DataByte(17) \in {0, 2, 4} THEN DataByte(17) ELSE None)
        /\ TypeByte # 24 =>
              Record.fan_speed =
                  (IF DataByte(16) \in 0 .. 3 THEN DataByte(16) ELSE None)

\* C18, reached: a frame of type 0x19 with the byte 36 at position 10, the
\* fan byte 4 and the mode byte 3 was decoded: the setpoint, the fan speed
\* and the mode are absent and the room temperature is 36.
C18_Witness ==
    /\ Returned /\ ~ReturnedNone
    /\ TypeByte = 25
    /\ DataByte(10) = 36
    /\ DataByte(16) = 4
    /\ DataByte(17) = 3
    /\ Record.temperature = None
    /\ Record.current_temperature = 36
    /\ Record.fan_speed = None
    /\ Record.hvac_mode = None


\* the key of the record the listener thread holds
RecordKey == << gateway.status[1].subnet, gateway.status[1].device_id >>

\* the step is the listener thread calling the callbacks of its record
CallbacksStep == gateway.pc = "callbacks" /\ gateway'.pc # "callbacks"

\* the callback of entity i is registered under the key
RegisteredUnder(i, key) ==
    /\ key \in DOMAIN gateway.callbacks
    /\ \E n \in 1 .. Len(gateway.callbacks[key]) :
           gateway.callbacks[key][n] = i

\* C12 -- Device isolation: an entity changes only when the listener thread
\* calls the callbacks of a record and the entity's callback is registered
\* under exactly the record's (subnet, device_id); an entity whose callback
\* is registered once under that key has _handle_status_update applied to
\* the record; every other entity, and every entity when nothing is
\* registered under the key, is left as it was.
C12_DeviceIsolation ==
    [][ \A i \in 1 .. Len(devices) :
          /\ devices'[i] # devices[i] =>
                (CallbacksStep /\ RegisteredUnder(i, RecordKey))
          /\ (CallbacksStep /\ RegisteredUnder(i, RecordKey)
                 /\ Len(gateway.callbacks[RecordKey]) = 1) =>
                devices'[i].entity =
                    handle_status_update(Fresh(devices[i].entity),
                                         gateway.status[1], now) ]_vars

\* C12, reached: the entities of 1.14 and 1.15 are both registered, the
\* thread has delivered a record of 1.14 reporting on, the entity of 1.14
\* shows COOL and the entity of 1.15 is as it was created.
C12_Witness ==
    /\ Len(devices) = 2
    /\ devices[1].address = << 1, 14 >>
    /\ devices[2].address = << 1, 15 >>
    /\ RegisteredUnder(1, << 1, 14 >>)
    /\ RegisteredUnder(2, << 1, 15 >>)
    /\ gateway.pc = "loop"
    /\ gateway.status # << >>
    /\ RecordKey = << 1, 14 >>
    /\ devices[1].entity.hvac_mode = HVAC_COOL
    /\ devices[1].entity.last_status = gateway.status
    /\ devices[1].entity.notify = 1
    /\ devices[2].entity = NewEntity

\* C14 -- Listener cancellation does not drop a delivered record:
\* stop_listener leaves the listener thread where it is, with the record it
\* holds, and changes no entity; and whenever the thread leaves the
\* delivery of a record, stopped or not, the callbacks of the record's key
\* were called with it.
C14_StopKeepsDelivery ==
    [][ /\ (gateway.listener_running /\ ~gateway'.listener_running) =>
              /\ gateway'.pc = gateway.pc
              /\ gateway'.status = gateway.status
              /\ gateway'.callbacks = gateway.callbacks
              /\ devices' = devices
        /\ CallbacksStep =>
              /\ gateway'.pc = "loop"
              /\ devices' = call_callbacks(
                               devices,
                               IF RecordKey \in DOMAIN gateway.callbacks
                               THEN gateway.callbacks[RecordKey] ELSE << >>,
                               gateway.status[1], now) ]_vars

\* C14, reached: stop_listener was called while the thread held a record of
\* 1.14 reporting on, before the callbacks were called; the thread has since
\* called them and the single entity, of 1.14, shows COOL and was notified.
C14_Witness ==
    /\ ~gateway.listener_running
    /\ gateway.stopped_at = "callbacks"
    /\ gateway.pc = "loop"
    /\ gateway.status # << >>
    /\ RecordKey = << 1, 14 >>
    /\ Len(devices) = 1
    /\ RegisteredUnder(1, << 1, 14 >>)
    /\ devices[1].entity.last_status = gateway.status
    /\ devices[1].entity.hvac_mode = HVAC_COOL
    /\ devices[1].entity.notify = 1

\* the bytes a string of characters stands for: its hex digits, in pairs
DigitsOf(hex_string) ==
    SelectSeq([i \in 1 .. Len(hex_string) |-> lower(hex_string[i])],
              is_hex_digit)
BytesOf(hex_string) == unhexlify(DigitsOf(hex_string))

\* C22 -- split_packet returns (prefix, frame) with prefix followed by frame
\* equal to the input bytes, frame starting with 0xAA 0xAA and no two
\* consecutive 0xAA bytes beginning inside the prefix; it raises the
\* marker-not-found error exactly when the input bytes hold no two
\* consecutive 0xAA bytes.  (A string with an odd number of hex digits
\* stands for no bytes; unhexlify raises for it.)
C22_SplitAtFirstMarker ==
    out # << >> =>
        LET r == out[1]
            even == Len(DigitsOf(wire)) % 2 = 0
            bytes == BytesOf(wire)
            not_found ==
                /\ r.error # << >>
                /\ r.error[1].message = "0xAA 0xAA marker not found in packet"
        IN  /\ not_found <=> (even /\ ~HasMarker(bytes))
            /\ even =>
                   /\ r.error = << >> <=> HasMarker(bytes)
                   /\ r.error = << >> =>
                          /\ r.prefix \o r.frame = bytes
                          /\ Len(r.frame) >= 2
                          /\ r.frame[1] = 170 /\ r.frame[2] = 170
                          /\ \A i \in 1 .. Len(r.prefix) :
                                 ~(bytes[i] = 170 /\ bytes[i + 1] = 170)

\* C22, reached: the string "0aaaAA" was split: its bytes 0a aa aa have the
\* marker at the second byte, and the prefix is the one byte 0a.
C22_Witness ==
    /\ out # << >>
    /\ wire = << "0", "a", "a", "a", "A", "A" >>
    /\ out[1].error = << >>
    /\ out[1].prefix = << 10 >>
    /\ out[1].frame = << 170, 170 >>

\* a builder was called with the schema kept; the call, the schema, and
\* what the builder gave
BuilderCalled ==
    wire.call # << >> /\ wire.call[1].function # "discover_protocol"
TheCall == wire.call[1]
TheSchema == wire.schema[1]
Built == out[1]
FrameBuilt == BuilderCalled /\ Built.error = << >>

\* C21 -- Every frame returned by build_packet or build_status_request, for
\* a schema that discover_protocol returned, passes validate_frame.
C21_BuiltFramesValid ==
    FrameBuilt => validate_frame(Built.frame) = "valid"

\* C21, reached: build_packet("on", 2, 254, temperature 25, mode FAN, fan
\* LOW) with the schema of the standard templates returned the frame
\* aaaa14 000000000000 02fe 01 00 19 02 000000 03 00 892d.
C21_Witness ==
    /\ FrameBuilt
    /\ TheCall.function = "build_packet"
    /\ TheCall.temperature = 25
    /\ Built.frame = << 170, 170, 20, 0, 0, 0, 0, 0, 0, 2, 254, 1, 0, 25, 2,
                        0, 0, 0, 3, 0, 137, 45 >>
    /\ validate_frame(Built.frame) = "valid"

\* discover_protocol has returned or raised for the templates in wire; the
\* templates; what it gave
Discovered == wire.schema = << >> /\ out # << >>
Templates == wire.templates
Discovery == out[1]

\* what is wrong with the template called name: the message of the error
\* split_packet or validate_frame raises for it, "valid" when neither does
TemplateFault(name) ==
    LET split == split_packet(Templates[name])
    IN  IF split.error # << >> THEN split.error[1].message
        ELSE validate_frame(split.frame)

\* C23 -- discover_protocol returns no schema when a template that is
\* present fails split_packet or validate_frame: it raises instead.
C23_NoSchemaFromBadTemplate ==
    Discovered =>
        \A name \in DOMAIN Templates :
            TemplateFault(name) # "valid" => Discovery.error # << >>

\* the messages of the errors raised for a malformed template
MalformedMessages ==
    { "Odd-length string", "0xAA 0xAA marker not found in packet",
      "Frame too short", "Frame does not start with 0xAA 0xAA",
      "Frame length mismatch", "Data too short for CRC", "CRC MISMATCH" }

\* C24 -- Every error discover_protocol raises because a template is
\* malformed carries the name of that template.
C24_ErrorNamesTemplate ==
    (Discovered /\ Discovery.error # << >>
        /\ Discovery.error[1].message \in MalformedMessages)
    => /\ Discovery.error[1].name \in DOMAIN Templates
       /\ TemplateFault(Discovery.error[1].name) # "valid"

\* the data area of the frame of a template
DataOf(name) == data_area_of(split_packet(Templates[name]).frame)

\* two data areas are equal at every position compared
SameData(a, b) ==
    \A i \in 1 .. Len(a) : i <= Len(b) => a[i] = b[i]

\* off, on and on_1.14 are present and well formed
CoreValid ==
    /\ {"off", "on", "on_1.14"} \subseteq DOMAIN Templates
    /\ \A name \in {"off", "on", "on_1.14"} : TemplateFault(name) = "valid"

\* discover_protocol raised an error with this message and gave no schema
FailedWith(message) ==
    /\ Discovery.error # << >>
    /\ Discovery.error[1].message = message
    /\ Discovery.schema = << >>

OpcodeError == "Could not discover opcode positions (off vs on identical)"
AddressError == "Could not discover address positions (on vs on_1.14 identical)"

\* C25 (as stated) -- with well-formed off, on and on_1.14: equal data areas
\* of on and on_1.14 make discover_protocol fail with the address error,
\* and equal data areas of off and on make it fail with the opcode error.
C25_IdenticalFails ==
    (Discovered /\ CoreValid) =>
        /\ SameData(DataOf("on"), DataOf("on_1.14")) => FailedWith(AddressError)
        /\ SameData(DataOf("off"), DataOf("on")) => FailedWith(OpcodeError)

\* C25 (amended) -- with well-formed off, on and on_1.14: equal data areas
\* of off and on make discover_protocol fail with the opcode error, whatever
\* on_1.14 is; equal data areas of on and on_1.14, the data areas of off and
\* on differing, make it fail with the address error; in both cases no
\* schema is returned, and in no other case is one of the two errors raised.
C25_IdenticalFailsInOrder ==
    (Discovered /\ CoreValid) =>
        LET same_power == SameData(DataOf("off"), DataOf("on"))
            same_device == SameData(DataOf("on"), DataOf("on_1.14"))
        IN  /\ same_power => FailedWith(OpcodeError)
            /\ (~same_power /\ same_device) => FailedWith(AddressError)
            /\ (~same_power /\ ~same_device) =>
                   ~FailedWith(OpcodeError) /\ ~FailedWith(AddressError)

\* C25, reached: on_1.14 is a copy of on, off differs from on, and
\* discover_protocol raised the address error.
C25_Witness ==
    /\ Discovered
    /\ CoreValid
    /\ Templates["on_1.14"] = Templates["on"]
    /\ Templates["off"] # Templates["on"]
    /\ FailedWith(AddressError)

\* the exemplar pair is present
PairGiven == {"cool_23c", "fan_24c"} \subseteq DOMAIN Templates

\* the positions compared at which the byte of fan_24c minus the byte of
\* cool_23c is delta
Steps(delta) ==
    { i \in 0 .. Len(DataOf("cool_23c")) - 1 :
        /\ i < Len(DataOf("fan_24c"))
        /\ At(DataOf("fan_24c"), i) - At(DataOf("cool_23c"), i) = delta }

Largest(S) == CHOOSE i \in S : \A j \in S : j <= i

\* C28 (as stated) -- with the exemplar pair, the temperature offset is an
\* offset at which the two data areas differ by exactly 1 and the mode
\* offset one at which they differ by exactly 2, whichever exemplar holds
\* the larger value; the offset is absent when there is no such offset.
C28_OffsetsByDifference ==
    (Discovered /\ Discovery.error = << >> /\ PairGiven) =>
        LET schema == Discovery.schema[1]
            by_one == Steps(1) \cup Steps(-1)
            by_two == Steps(2) \cup Steps(-2)
        IN  /\ schema.temperature_position
                   \in (IF by_one = {} THEN {None} ELSE by_one)
            /\ schema.mode_position
                   \in (IF by_two = {} THEN {None} ELSE by_two)

\* C28 (amended) -- with the exemplar pair, the temperature offset is the
\* last offset at which the byte of fan_24c is the byte of cool_23c plus 1,
\* and the mode offset the last at which it is that byte plus 2; the offset
\* is absent when there is no such offset, also when cool_23c holds the
\* larger value.
C28_OffsetsByStep ==
    (Discovered /\ Discovery.error = << >> /\ PairGiven) =>
        LET schema == Discovery.schema[1]
        IN  /\ schema.temperature_position =
                   (IF Steps(1) = {} THEN None ELSE Largest(Steps(1)))
            /\ schema.mode_position =
                   (IF Steps(2) = {} THEN None ELSE Largest(Steps(2)))

\* C28, reached: fan_24c is larger by 1 at the offsets 10 and 12 and by 2 at
\* the offset 11; the temperature offset is 12 and the mode offset 11.
C28_Witness ==
    /\ Discovered
    /\ Discovery.error = << >>
    /\ PairGiven
    /\ Steps(1) = {10, 12}
    /\ Steps(2) = {11}
    /\ Discovery.schema[1].temperature_position = 12
    /\ Discovery.schema[1].mode_position = 11

\* build_packet was called with the verb "off" or "on"
PacketCalled ==
    /\ BuilderCalled
    /\ TheCall.function = "build_packet"
    /\ TheCall.verb \in {"off", "on"}

\* the indices of the frame at which build_packet writes the overrides given
OverrideIndices ==
    (IF TheCall.temperature # None /\ TheSchema.temperature_position # None
     THEN {3 + TheSchema.temperature_position} ELSE {})
    \cup (IF TheCall.hvac_mode # None /\ TheSchema.mode_position # None
          THEN {3 + TheSchema.mode_position} ELSE {})
    \cup (IF TheCall.fan_speed # None
          THEN {3 + TheSchema.fan_speed_position} ELSE {})

\* the indices of the length byte and of the two CRC bytes of a frame
LengthAndCrc(frame) == {2, Len(frame) - 2, Len(frame) - 1}

\* the frame has the bytes of the reference frame outside the indices
SameOutside(frame, reference, indices) ==
    /\ Len(frame) = Len(reference)
    /\ \A i \in 0 .. Len(frame) - 1 :
           i \notin indices => At(frame, i) = At(reference, i)

\* C26 (as stated) -- build_packet for "on" builds on base_cool_frame
\* whenever temperature, hvac_mode or fan_speed is given and that frame
\* exists, and on base_on_frame otherwise; for "off" on base_off_frame: the
\* frame returned has the bytes of that reference wherever build_packet
\* does not write.
C26_RicherBaseOnAnyOverride ==
    (PacketCalled /\ Built.error = << >>) =>
        SameOutside(Built.frame,
            IF TheCall.verb = "off" THEN TheSchema.base_off_frame
            ELSE IF TheSchema.base_cool_frame # << >>
                    /\ (\/ TheCall.temperature # None
                        \/ TheCall.hvac_mode # None
                        \/ TheCall.fan_speed # None)
            THEN TheSchema.base_cool_frame
            ELSE TheSchema.base_on_frame,
            {3 + 6, 3 + 7} \cup OverrideIndices \cup LengthAndCrc(Built.frame))

\* C26 (amended) -- build_packet for "on" builds on base_cool_frame whenever
\* temperature or hvac_mode is given and that frame exists, and on
\* base_on_frame otherwise, also when fan_speed alone is given; for "off"
\* on base_off_frame.
C26_RicherBaseOnTemperatureOrMode ==
    (PacketCalled /\ Built.error = << >>) =>
        SameOutside(Built.frame,
            IF TheCall.verb = "off" THEN TheSchema.base_off_frame
            ELSE IF TheSchema.base_cool_frame # << >>
                    /\ (\/ TheCall.temperature # None
                        \/ TheCall.hvac_mode # None)
            THEN TheSchema.base_cool_frame
            ELSE TheSchema.base_on_frame,
            {3 + 6, 3 + 7} \cup OverrideIndices \cup LengthAndCrc(Built.frame))

\* C26, reached: "on" with fan_speed alone, the cool frame in the schema
\* with 23 at offset 10: the frame returned has the 0 of the plain on frame
\* there; and the fan speed at offset 15.
C26_Witness ==
    /\ PacketCalled
    /\ Built.error = << >>
    /\ TheCall.verb = "on"
    /\ TheCall.temperature = None
    /\ TheCall.hvac_mode = None
    /\ TheCall.fan_speed = FAN_SPEED_LOW
    /\ TheSchema.base_cool_frame # << >>
    /\ At(TheSchema.base_cool_frame, 3 + 10) = 23
    /\ At(TheSchema.base_on_frame, 3 + 10) = 0
    /\ At(Built.frame, 3 + 10) = 0
    /\ At(Built.frame, 3 + 15) = FAN_SPEED_LOW

\* the reference frame build_packet chose for the call
Reference ==
    base_frame(TheCall.verb, TheSchema, TheCall.temperature,
               TheCall.hvac_mode, TheCall.fan_speed)

\* the indices of the frame at the address offsets of the schema
AddressIndices ==
    { 3 + TheSchema.address_positions[i] :
          i \in 1 .. Len(TheSchema.address_positions) }

\* C27 -- A frame returned by build_packet carries subnet and device at the
\* address offsets of the schema, and differs from the reference frame
\* chosen only at those offsets, at the offsets of the overrides given, at
\* the length byte and at the two CRC bytes.
C27_WritesAtDiscoveredOffsets ==
    (PacketCalled /\ Built.error = << >>) =>
        /\ \A i \in AddressIndices :
               At(Built.frame, i) \in {TheCall.subnet, TheCall.device}
        /\ SameOutside(Built.frame, Reference,
               AddressIndices \cup OverrideIndices
                   \cup LengthAndCrc(Built.frame))

\* C29 (as stated) -- build_status_request with a schema without
\* base_status_request_frame raises and returns no frame; with the frame
\* present it returns a complete frame.
C29_StatusRequestBuilt ==
    (BuilderCalled /\ TheCall.function = "build_status_request") =>
        IF TheSchema.base_status_request_frame = << >>
        THEN Built.error # << >> /\ Built.frame = << >>
        ELSE Built.error = << >> /\ validate_frame(Built.frame) = "valid"

\* C29 (amended) -- build_status_request with a schema without
\* base_status_request_frame raises "Status request template not available
\* in schema" and returns no frame; with a reference frame of at least 11
\* bytes it returns a frame of the length of the reference that passes
\* validate_frame; with a shorter reference frame it raises an IndexError
\* and returns no frame.
C29_StatusRequestBuiltWhenLongEnough ==
    (BuilderCalled /\ TheCall.function = "build_status_request") =>
        LET reference == TheSchema.base_status_request_frame
        IN  /\ reference = << >> =>
                   /\ Built.error # << >>
                   /\ Built.error[1].message =
                          "Status request template not available in schema"
                   /\ Built.frame = << >>
            /\ (reference # << >> /\ Len(reference) >= 11) =>
                   /\ Built.error = << >>
                   /\ Len(Built.frame) = Len(reference)
                   /\ validate_frame(Built.frame) = "valid"
            /\ (reference # << >> /\ Len(reference) < 11) =>
                   /\ Built.error # << >>
                   /\ Built.error[1].message = "bytearray index out of range"
                   /\ Built.frame = << >>

\* C29, reached: build_status_request was called with a schema without
\* base_status_request_frame and raised; no frame was returned.
C29_Witness ==
    /\ BuilderCalled
    /\ TheCall.function = "build_status_request"
    /\ TheSchema.base_status_request_frame = << >>
    /\ Built.error # << >>
    /\ Built.frame = << >>

\* a temperature outside 18..30 was given, the schema has a temperature
\* offset inside the data area of the reference frame chosen, no other
\* override is written at that offset, and every index written is inside
\* the reference frame
UntypicalTemperature ==
    /\ PacketCalled
    /\ TheCall.temperature # None
    /\ TheCall.temperature \notin 18 .. 30
    /\ TheSchema.temperature_position # None
    /\ 3 + TheSchema.temperature_position < Len(Reference) - 2
    /\ TheSchema.temperature_position # TheSchema.mode_position
    /\ TheSchema.temperature_position # TheSchema.fan_speed_position
    /\ \A i \in {3 + 6, 3 + 7} \cup OverrideIndices : i < Len(Reference)

\* C30 (as stated) -- For every integer temperature outside 18..30, the
\* schema having a temperature offset, build_packet returns a frame with
\* that value at the temperature offset.
C30_AnyTemperatureWritten ==
    UntypicalTemperature =>
        /\ Built.error = << >>
        /\ At(Built.frame, 3 + TheSchema.temperature_position)
               = TheCall.temperature

\* C30 (amended) -- For every temperature in 0..17 and 31..255, the schema
\* having a temperature offset, build_packet returns a frame with that value
\* at the temperature offset; for an integer outside 0..255 it raises a
\* ValueError and returns no frame.
C30_ByteTemperatureWritten ==
    UntypicalTemperature =>
        IF TheCall.temperature \in 0 .. 255
        THEN /\ Built.error = << >>
             /\ At(Built.frame, 3 + TheSchema.temperature_position)
                    = TheCall.temperature
        ELSE /\ Built.error # << >>
             /\ Built.error[1].message = "byte must be in range(0, 256)"
             /\ Built.frame = << >>

\* C30, reached: the temperature 31 was given with a schema whose
\* temperature offset is 10, and the frame returned has 31 at offset 10.
C30_Witness ==
    /\ UntypicalTemperature
    /\ TheCall.temperature = 31
    /\ TheSchema.temperature_position = 10
    /\ Built.error = << >>
    /\ At(Built.frame, 3 + 10) = 31

\* the schema discover_protocol gives for the templates in wire, and what
\* the call in wire returns with that schema
FirstSchema == discover_protocol(wire.templates).schema
OnFirstSchema(call) ==
    IF call.function = "build_packet"
    THEN build_packet(call.verb, call.subnet, call.device, FirstSchema[1],
                      call.temperature, call.hvac_mode, call.fan_speed)
    ELSE build_status_request(call.subnet, call.device, FirstSchema[1])

Settled == listener.pc = "settled"

\* the visible power is the record's, and for a record of a device that is
\* on the visible mode, target temperature and fan mode are those of the
\* fields the record has
Converged(e, status) ==
    /\ status.is_on = "False" => e.hvac_mode = HVAC_OFF
    /\ status.is_on = "True" =>
          /\ e.hvac_mode # HVAC_OFF
          /\ status.hvac_mode # None =>
                 e.hvac_mode = IF status.hvac_mode = HVAC_MODE_FAN
                               THEN HVAC_FAN_ONLY ELSE HVAC_COOL
          /\ status.temperature # None =>
                 e.target_temperature = status.temperature
          /\ status.fan_speed # None =>
                 e.fan_mode = IF status.fan_speed = FAN_SPEED_HIGH
                              THEN FAN_HIGH ELSE FAN_AUTO

\* C32 -- Convergence to the device: once no command is issued any more and
\* the device keeps broadcasting one status record, whatever commands and
\* records came before, the entity eventually shows the power of that
\* record and, for a device that is on, the mode, target temperature and
\* fan mode the record has.
C32_ConvergesToDevice ==
    Settled ~> (Settled /\ Converged(ac, listener.status[1]))

\* the step is a call of a command whose gateway.send_packet returned False
FailedSend ==
    /\ now' = now
    /\ op'.sent = "failed"
    /\ \/ op'.kind \in {"turn_on", "turn_off", "set_fan_mode"}
       \/ /\ op'.kind = "set_hvac_mode"
          /\ op'.hvac_mode \in {HVAC_OFF, HVAC_COOL, HVAC_FAN_ONLY}
       \/ /\ op'.kind = "set_temperature"
          /\ op'.temperature # None
          /\ ac.hvac_mode # HVAC_OFF

\* C33 -- State is updated only if the send was successful: a call of
\* turn_on, turn_off, set_hvac_mode, set_temperature or set_fan_mode whose
\* send_packet returns False leaves the visible HVAC mode, target
\* temperature and fan mode as they were before the call.
C33_FailedSendKeepsState ==
    [][FailedSend => Visible(ac') = Visible(ac)]_vars

\* the step is a power-off: turn_off, set_hvac_mode(OFF), or a status record
\* of a device that is off
PowerOffStep ==
    /\ now' = now
    /\ \/ op'.kind = "turn_off"
       \/ op'.kind = "set_hvac_mode" /\ op'.hvac_mode = HVAC_OFF
       \/ op'.kind = "status" /\ Received.is_on = "False"

\* C34 -- Power-off preserves the setpoint: turn_off and the processing of
\* a status record with is_on False, with or without a temperature and a
\* mode, leave the visible target temperature as it was; and turn_on sends
\* the visible target temperature, so that the turn_on after a power-off
\* sends the temperature that was visible before it.
C34_PowerOffKeepsSetpoint ==
    [][/\ PowerOffStep => ac'.target_temperature = ac.target_temperature
       /\ (now' = now /\ op'.kind = "turn_on") =>
              /\ ac'.pending_command # << >>
              /\ ac'.pending_command[1].temperature = ac.target_temperature
              /\ ac'.target_temperature = ac.target_temperature]_vars

\* C34, reached: a record of a device that is off, carrying 25 C, was
\* accepted and turned the entity OFF; the target temperature is still 24.
C34_Witness ==
    /\ op.kind = "status"
    /\ LastReceived.is_on = "False"
    /\ LastReceived.temperature = DefaultTemperature + 1
    /\ ac.last_status = op.status
    /\ ac.pending_command = << >>
    /\ ac.hvac_mode = HVAC_OFF
    /\ ac.target_temperature = DefaultTemperature
    /\ ac.notify = 1

\* C35 -- A status record rejected by the suppression window leaves the
\* whole entity as it was: the visible mode, target temperature and fan
\* mode, the last status remembered, the pending command and the time of
\* the last command; and no notification is made.
C35_RejectedRecordChangesNothing ==
    [][(StatusStep /\ InWindow) => ac' = [ac EXCEPT !.notify = 0]]_vars

\* C35, reached: a record of a device that is off came inside the window of
\* a command, while the entity is on, remembers another record and has the
\* command pending: nothing was taken from it.
C35_Witness ==
    /\ op.kind = "status"
    /\ InWindow
    /\ LastReceived.is_on = "False"
    /\ ac.hvac_mode # HVAC_OFF
    /\ ac.last_status # << >>
    /\ ac.last_status # op.status
    /\ ac.pending_command # << >>
    /\ ac.last_command_sent > 0
    /\ ac.notify = 0

\* the step is a call of a command that sends a PowerOn frame
PowerOnSent ==
    /\ now' = now
    /\ \/ op'.kind \in {"turn_on", "set_fan_mode"}
       \/ /\ op'.kind = "set_hvac_mode"
          /\ op'.hvac_mode \notin {HVAC_OFF, HVAC_DRY}
       \/ /\ op'.kind = "set_temperature"
          /\ op'.temperature # None
          /\ ac.hvac_mode # HVAC_OFF

\* the mode byte and the fan-speed byte of the protocol for a visible mode
\* (COOL for an entity that is OFF) and for a fan mode
ModeByte(hvac_mode) ==
    IF hvac_mode = HVAC_FAN_ONLY THEN HVAC_MODE_FAN ELSE HVAC_MODE_COOL

FanByte(fan_mode) ==
    CASE fan_mode = FAN_AUTO -> FAN_SPEED_AUTO
      [] fan_mode = FAN_HIGH -> FAN_SPEED_HIGH
      [] fan_mode = FAN_MEDIUM -> FAN_SPEED_MEDIUM
      [] fan_mode = FAN_LOW -> FAN_SPEED_LOW

Raised == out[1]

\* C37 -- Subscriber fault isolation: when the callbacks registered for the
\* address of a record are called and some of them raise, every callback
\* registered for that address that does not raise has received the
\* record, the entities of the callbacks that raised and of other addresses
\* are as they were, and the listener thread is back at the head of its
\* loop, from where it receives and delivers the next packet while the
\* listener is running.
C37_CallbackFaultIsolated ==
    [][CallbacksStep =>
          /\ \A i \in 1 .. Len(devices) :
                devices'[i].entity =
                    IF RegisteredUnder(i, RecordKey) /\ i \notin out'[1]
                    THEN handle_status_update(Fresh(devices[i].entity),
                                              gateway.status[1], now)
                    ELSE devices[i].entity
          /\ gateway'.pc = "loop"
          /\ gateway'.listener_running = gateway.listener_running
          /\ gateway'.sock = gateway.sock]_vars

\* C37, reached: two entities are registered for 1.14; in the delivery of
\* a record of 1.14 reporting on, the first callback raised and the second
\* received the record (its entity shows COOL); the thread has received
\* the next packet since and is about to deliver it.
C37_Witness ==
    /\ Len(devices) = 2
    /\ RegisteredUnder(1, << 1, 14 >>)
    /\ RegisteredUnder(2, << 1, 14 >>)
    /\ gateway.callbacks[<< 1, 14 >>] = << 1, 2 >>
    /\ out # << >>
    /\ Raised = {1}
    /\ devices[1].entity = NewEntity
    /\ devices[2].entity.hvac_mode = HVAC_COOL
    /\ devices[2].entity.notify = 1
    /\ gateway.listener_running
    /\ gateway.pc = "callbacks"
    /\ RecordKey = << 1, 14 >>

\* C38 -- For every sequence of start_listener and stop_listener calls on
\* one gateway, a stop_listener that returned from its join timeout and an
\* immediate start_listener included, at most one listener loop receives
\* packets at any time: never are two threads both in recvfrom on the
\* gateway's socket.
C38_OneListenerLoop ==
    ~(/\ gateway.pc = "recvfrom"
      /\ listener.pc = "recvfrom"
      /\ gateway.listener_running
      /\ gateway.sock = "open")

\* stop_listener was called and the thread it stopped has not exited
Stopping == ~gateway.listener_running /\ gateway.pc # "none"

\* the listener thread has exited and its socket is closed
Exited == gateway.pc = "none" /\ gateway.sock = "closed"

\* C39 -- Listener termination: once stop_listener was called, the thread,
\* when it is scheduled and recvfrom returns by its timeout or fails on
\* the closed socket, eventually leaves the loop with its socket closed
\* (start_listener being possible only after that); and while the listener
\* is not stopped the thread never leaves the loop, whether a packet was
\* malformed, recvfrom timed out or a callback raised.
C39_ListenerTerminates ==
    /\ Stopping ~> Exited
    /\ [][(gateway.pc # "none" /\ gateway'.pc = "none")
             => ~gateway.listener_running]_vars

\* C39, reached: a callback raised in a delivery, the thread went on, was
\* stopped while it waited in recvfrom, and has exited with the socket
\* closed.
C39_Witness ==
    /\ out # << >>
    /\ Raised # {}
    /\ gateway.stopped_at = "recvfrom"
    /\ ~gateway.listener_running
    /\ Exited

=============================================================================
